---- MODULE Spec2Model ----
(***************************************************************************)
(* Field-graph model, mutation handlers and undo/redo history of the       *)
(* forms designer (src/DESIGNER.py, class App and the data classes).       *)
(*                                                                         *)
(* The live model is App.project (a ProjectModel).  Every handler of the   *)
(* App that changes it is one action below.  Field, Task and Condition     *)
(* are value records; ObjectFieldDef objects live in a heap because        *)
(* ProjectModel.to_dict stores vars(ofd), the object's own attribute       *)
(* dictionary, in the snapshot.  The free-text attributes Field.info and   *)
(* Field.note are read by no handler modelled here and are left out.       *)
(***************************************************************************)
EXTENDS Integers, Sequences, FiniteSets, TLC

VARIABLES
    project,             \* App.project : ProjectModel
    current_task_id,     \* App.current_task_id
    selected_field_ids,  \* App.selected_field_ids
    _undo_stack,         \* App._undo_stack
    _redo_stack,         \* App._redo_stack
    _clipboard,          \* App._clipboard
    heap,                \* the ObjectFieldDef objects, by reference
    cache,               \* App._field_id_to_name, App._field_id_to_task_id
    name_entry,          \* text typed in the focused name Entry, not yet committed
    last,                \* history: the last handler, its argument and, when
                         \* last.keep says so, the project and stack lengths before it
    importer             \* the BPMNImporterWindow that is open, and the file it read

vars == << project, current_task_id, selected_field_ids, _undo_stack, _redo_stack,
           _clipboard, heap, cache, name_entry, last, importer >>

----------------------------------------------------------------------------
(* Bounds of the model *)

MaxUid == 4      \* how many ids _uid() can hand out
MaxNew == 1      \* handlers that make a field or a task run only while fewer ids are in use
MaxHist == 1     \* handlers that push a snapshot run only while the undo stack is shorter
MaxDeep == 2     \* the same, in the specifications that follow longer histories
MaxObj == 4      \* how many ObjectFieldDef objects can be alive
MaxSel == 1      \* how many fields the user ticks at once
MaxChain == 4    \* the same as MaxHist, where an origin is set more than once

(* Program constant *)
_UNDO_MAX == 50

None == "None"

TYPE_VALUES ==
    {"Texto", "Área de texto", "Numérico", "Lista", "Lista Vários", "Data", "Informativo",
     "Anexo", "Valores", "Componente do sistema", "Objeto"}
LIST_FIELD_TYPES == {"Lista", "Lista Vários"}

----------------------------------------------------------------------------
(* Sequences *)

Range(s) == {s[i] : i \in DOMAIN s}

Min(S) == CHOOSE x \in S : \A y \in S : x <= y

MapSeq(s, F(_)) == [i \in DOMAIN s |-> F(s[i])]

RemoveAt(s, i) == SubSeq(s, 1, i - 1) \o SubSeq(s, i + 1, Len(s))

InsertAt(s, i, x) == SubSeq(s, 1, i - 1) \o <<x>> \o SubSeq(s, i, Len(s))

SwapLost(s, i, j) == [s EXCEPT ![i] = s[j]]

Swap(s, i, j) == [s EXCEPT ![i] = s[j], ![j] = s[i]]

RECURSIVE Flatten(_)
Flatten(ss) == IF ss = <<>> THEN <<>> ELSE Head(ss) \o Flatten(Tail(ss))

\* index of the first element satisfying P, 0 when there is none
FirstIndex(s, P(_)) ==
    CHOOSE i \in 0..Len(s) :
        IF i = 0 THEN \A k \in DOMAIN s : ~P(s[k])
        ELSE P(s[i]) /\ \A k \in 1..(i - 1) : ~P(s[k])

----------------------------------------------------------------------------
(* Data classes *)

Condition(src, op, value) == [src_field |-> src, op |-> op, value |-> value]

Field(id) ==
    [id |-> id, name |-> "Novo campo", ftype |-> "Texto",
     required |-> FALSE, readonly |-> FALSE, options |-> "",
     origin_task |-> None, origin_field |-> None,
     name_locked |-> FALSE, name_lock_reason |-> "",
     name_before_obj |-> "", name_before_origin |-> "",
     obj_type |-> "", cond |-> <<>>]

Task(id, name) == [id |-> id, name |-> name, fields |-> <<>>]

ProjectModel ==
    [flow_name |-> "Novo fluxo", tasks |-> <<>>, object_type |-> "", object_schema |-> <<>>]

ObjectFieldDef(name, order) == [name |-> name, ftype |-> "Texto", order |-> order]

\* every field of every task
AllFields(p) == UNION {Range(t.fields) : t \in Range(p.tasks)}

FieldIds(p) == {f.id : f \in AllFields(p)}

TaskIds(p) == {t.id : t \in Range(p.tasks)}

FieldById(p, fid) == CHOOSE f \in AllFields(p) : f.id = fid

TaskIndex(tasks, tid) == FirstIndex(tasks, LAMBDA t : t.id = tid)

FieldIndex(fields, fid) == FirstIndex(fields, LAMBDA f : f.id = fid)

\* the task that owns field fid (index), 0 when there is none
OwnerIndex(tasks, fid) == FirstIndex(tasks, LAMBDA t : \E f \in Range(t.fields) : f.id = fid)

\* apply F to every field of every task
MapFields(tasks, F(_)) ==
    [i \in DOMAIN tasks |-> [tasks[i] EXCEPT !.fields = MapSeq(@, F)]]

\* apply F to the field with id fid, wherever it is
UpdateField(tasks, fid, F(_)) ==
    MapFields(tasks, LAMBDA f : IF f.id = fid THEN F(f) ELSE f)

----------------------------------------------------------------------------
(* _uid: a fresh identifier.  uuid4 never repeats; the model hands out the  *)
(* first identifier that nothing in the application still mentions.        *)

Uid(i) == "u" \o ToString(i)

SnapshotIds(s) ==
    TaskIds(s.project) \cup FieldIds(s.project) \cup s.selected_field_ids

UsedIds ==
    TaskIds(project) \cup FieldIds(project) \cup selected_field_ids
    \cup UNION {SnapshotIds(_undo_stack[i]) : i \in DOMAIN _undo_stack}
    \cup UNION {SnapshotIds(_redo_stack[i]) : i \in DOMAIN _redo_stack}
    \cup {fd.id_origem : fd \in Range(_clipboard.fields)}
    \cup {_clipboard.source_task_id}

FreeUids(used) == {i \in 1..MaxUid : Uid(i) \notin used}

CanUid(n) == Cardinality(FreeUids(UsedIds)) >= n

\* few of the identifiers are in use: a handler that makes a field or a task may run
FewNew == MaxUid - Cardinality(FreeUids(UsedIds)) < MaxNew

RECURSIVE NthFree(_, _)
NthFree(S, n) == IF n = 1 THEN Min(S) ELSE NthFree(S \ {Min(S)}, n - 1)

\* _uid() giving the same identifier again
UidRepeated(n) == Uid(1)

\* the n-th call of _uid() inside one handler
_uid(n) == Uid(NthFree(FreeUids(UsedIds), n))

----------------------------------------------------------------------------
(* Metadata cache *)

_rebuild_metadata_cache(p) ==
    [field_name |-> [fid \in FieldIds(p) |-> FieldById(p, fid).name],
     field_task |-> [fid \in FieldIds(p) |-> p.tasks[OwnerIndex(p.tasks, fid)].id],
     task_name  |-> [tid \in TaskIds(p) |-> p.tasks[TaskIndex(p.tasks, tid)].name]]

----------------------------------------------------------------------------
(* Active task *)

\* _get_task() with no argument assigns current_task_id when it is None
GetTaskCur(cur, tasks) == IF cur = None /\ tasks # <<>> THEN tasks[1].id ELSE cur

\* index of the task _get_task() returns, 0 for None
_get_task(cur, tasks) == TaskIndex(tasks, GetTaskCur(cur, tasks))

NoEdit == [fid |-> None, text |-> ""]

\* _add_row_widget forces readonly on the Informativo fields it draws
_add_row_widget(f) == IF f.ftype = "Informativo" THEN [f EXCEPT !.readonly = TRUE] ELSE f

\* _refresh_rows redraws the rows of the active task
_refresh_rows(cur, tasks) ==
    LET ti == _get_task(cur, tasks)
    IN  IF ti = 0 THEN tasks
        ELSE [tasks EXCEPT ![ti].fields = MapSeq(@, _add_row_widget)]

\* the combo refreshed without looking for the active task
_refresh_task_comboIdle(cur, tasks) == cur

\* _refresh_task_combo settles current_task_id
_refresh_task_combo(cur, tasks) ==
    IF _get_task(cur, tasks) # 0 THEN GetTaskCur(cur, tasks)
    ELSE IF tasks # <<>> THEN tasks[1].id
    ELSE None

----------------------------------------------------------------------------
(* ObjectFieldDef objects *)

Ref(i) == "o" \o ToString(i)

FreeRefs(h) == {i \in 1..MaxObj : Ref(i) \notin DOMAIN h}

\* n new objects, copies of the attribute dictionaries ds, added to heap h
AllocAll(h, ds) ==
    LET free == FreeRefs(h)
        refs == [i \in DOMAIN ds |-> Ref(NthFree(free, i))]
    IN  [refs |-> refs,
         heap |-> [r \in DOMAIN h \cup Range(refs) |->
                     IF r \in DOMAIN h THEN h[r]
                     ELSE ds[CHOOSE i \in DOMAIN ds : refs[i] = r]]]

SchemaRefs(p, us, rs) ==
    Range(p.object_schema)
    \cup UNION {Range(us[i].project.object_schema) : i \in DOMAIN us}
    \cup UNION {Range(rs[i].project.object_schema) : i \in DOMAIN rs}

\* objects nothing refers to any more are dropped
Collect(h, p, us, rs) == [r \in DOMAIN h \cap SchemaRefs(p, us, rs) |-> h[r]]

----------------------------------------------------------------------------
(* Serialisation *)

FieldDict(f) ==
    [id |-> f.id, name |-> f.name, ftype |-> f.ftype,
     required |-> f.required, readonly |-> f.readonly, options |-> f.options,
     origin_task |-> f.origin_task, origin_field |-> f.origin_field,
     name_locked |-> f.name_locked, name_lock_reason |-> f.name_lock_reason,
     name_before_obj |-> f.name_before_obj, name_before_origin |-> f.name_before_origin,
     obj_type |-> f.obj_type,
     cond |-> MapSeq(f.cond, LAMBDA c : [src_field |-> c.src_field, op |-> c.op, value |-> c.value])]

\* ProjectModel.to_dict: "object_schema" holds vars(ofd), the objects' own dictionaries
to_dict(p) ==
    [flow_name |-> p.flow_name,
     object_type |-> p.object_type,
     object_schema |-> p.object_schema,
     tasks |-> MapSeq(p.tasks, LAMBDA t :
                  [id |-> t.id, name |-> t.name, fields |-> MapSeq(t.fields, FieldDict)])]

\* a field made from a dictionary, its options forgotten
FieldFromDictNoOptions(fd) ==
    [id |-> fd.id, name |-> fd.name, ftype |-> fd.ftype,
     required |-> fd.required, readonly |-> fd.readonly, options |-> "",
     origin_task |-> fd.origin_task, origin_field |-> fd.origin_field,
     name_locked |-> fd.name_locked, name_lock_reason |-> fd.name_lock_reason,
     name_before_obj |-> fd.name_before_obj, name_before_origin |-> fd.name_before_origin,
     obj_type |-> fd.obj_type,
     cond |-> MapSeq(fd.cond, LAMBDA c : Condition(c.src_field, c.op, c.value))]

FieldFromDict(fd) ==
    [id |-> fd.id, name |-> fd.name, ftype |-> fd.ftype,
     required |-> fd.required, readonly |-> fd.readonly, options |-> fd.options,
     origin_task |-> fd.origin_task, origin_field |-> fd.origin_field,
     name_locked |-> fd.name_locked, name_lock_reason |-> fd.name_lock_reason,
     name_before_obj |-> fd.name_before_obj, name_before_origin |-> fd.name_before_origin,
     obj_type |-> fd.obj_type,
     cond |-> MapSeq(fd.cond, LAMBDA c : Condition(c.src_field, c.op, c.value))]

\* ProjectModel.from_dict: ObjectFieldDef(**x) makes a new object from the dictionary x
\* as it is now.  ds are the dictionaries of d["object_schema"].
from_dict(d, ds, h) ==
    LET a == AllocAll(h, ds)
    IN  [project |->
            [flow_name |-> d.flow_name,
             tasks |-> MapSeq(d.tasks, LAMBDA td :
                          [id |-> td.id, name |-> td.name,
                           fields |-> MapSeq(td.fields, FieldFromDict)]),
             object_type |-> d.object_type,
             object_schema |-> a.refs],
         heap |-> a.heap]

\* _serialize_project() when the project is p
_serialize_project(p) ==
    LET ti == _get_task(current_task_id, p.tasks)
    IN  [project |-> to_dict(p),
         current_task_id |-> IF ti = 0 THEN None ELSE p.tasks[ti].id,
         selected_field_ids |-> selected_field_ids]

\* what a snapshot says, read now
Content(s, h) ==
    [s EXCEPT !.project.object_schema = MapSeq(@, LAMBDA r : h[r])]

\* the project by value
View(p, h) == [p EXCEPT !.object_schema = MapSeq(@, LAMBDA r : h[r])]

----------------------------------------------------------------------------
(* _apply_project_dict *)

Positions(tasks) ==
    Flatten([i \in DOMAIN tasks |-> [j \in DOMAIN tasks[i].fields |-> <<i, j>>]])

\* "ajustar campos Objeto", the loop over every field in order
RECURSIVE AdjustObjeto(_, _, _)
AdjustObjeto(tasks, ot, pos) ==
    IF pos = <<>> THEN [tasks |-> tasks, object_type |-> ot]
    ELSE LET i == Head(pos)[1]
             j == Head(pos)[2]
             f == tasks[i].fields[j]
         IN  IF f.ftype # "Objeto" THEN AdjustObjeto(tasks, ot, Tail(pos))
             ELSE LET ot1 == IF ot # "" THEN ot
                             ELSE IF f.obj_type # "" THEN f.obj_type ELSE f.name
                      f1 == [f EXCEPT !.obj_type = ot1, !.name = ot1,
                                      !.name_lock_reason = "objeto", !.name_locked = TRUE]
                  IN  AdjustObjeto([tasks EXCEPT ![i].fields[j] = f1], ot1, Tail(pos))

\* d is a snapshot (it has the key "project") or a bare project dictionary
_apply_project_dict(d, cur, h) ==
    LET wrapped == "project" \in DOMAIN d
        project_dict == IF wrapped THEN d.project ELSE d
        state_current_task == IF wrapped THEN d.current_task_id ELSE None
        state_selection == IF wrapped THEN d.selected_field_ids ELSE {}
        ds == MapSeq(project_dict.object_schema, LAMBDA r : h[r])
        made == from_dict(project_dict, ds, h)
        new_project == made.project
        valid_ids == TaskIds(new_project)
        valid_field_ids == FieldIds(new_project)
        desired_task_id ==
            IF state_current_task # None /\ state_current_task \in valid_ids
                THEN state_current_task
            ELSE IF cur # None /\ cur \in valid_ids THEN cur
            ELSE None
        cur1 == IF desired_task_id # None THEN desired_task_id
                ELSE IF new_project.tasks # <<>> THEN new_project.tasks[1].id
                ELSE None
        adj == AdjustObjeto(new_project.tasks, new_project.object_type,
                            Positions(new_project.tasks))
        p1 == [new_project EXCEPT !.tasks = adj.tasks, !.object_type = adj.object_type]
        cache1 == _rebuild_metadata_cache(p1)
        cur2 == _refresh_task_combo(cur1, p1.tasks)
    IN  [project |-> [p1 EXCEPT !.tasks = _refresh_rows(cur2, p1.tasks)],
         current_task_id |-> cur2,
         selected_field_ids |-> state_selection \cap valid_field_ids,
         cache |-> cache1,
         heap |-> made.heap]

\* from_dict needs room for the new ObjectFieldDef objects
CanApply(d) ==
    LET pd == IF "project" \in DOMAIN d THEN d.project ELSE d
    IN  Cardinality(FreeRefs(heap)) >= Len(pd.object_schema)

----------------------------------------------------------------------------
(* History *)

\* the undo stack after _push_undo()
PushUndoOldestKept(us, snap) ==
    LET a == Append(us, snap)
    IN  IF Len(a) > _UNDO_MAX THEN SubSeq(a, 1, _UNDO_MAX) ELSE a

_push_undo(us, snap) ==
    LET a == Append(us, snap)
    IN  IF Len(a) > _UNDO_MAX THEN Tail(a) ELSE a

NoPre == [project |-> ProjectModel, ulen |-> 0, rlen |-> 0]

Pre == [project |-> View(project, heap),
        ulen |-> Len(_undo_stack), rlen |-> Len(_redo_stack)]

\* the end of a handler: every variable gets its value
Done(op, arg, pre, p, cur, sel, us, rs, clip, h, c, e) ==
    \E p1 \in {p}, us1 \in {us}, rs1 \in {rs} :
        /\ project' = p1
        /\ current_task_id' = cur
        /\ selected_field_ids' = sel
        /\ _undo_stack' = us1
        /\ _redo_stack' = rs1
        /\ _clipboard' = clip
        /\ heap' = Collect(h, p1, us1, rs1)
        /\ cache' = c
        /\ name_entry' = e
        /\ last' = [op   |-> IF last.keep = "nothing" THEN "" ELSE op,
                     arg  |-> IF last.keep = "nothing" THEN {} ELSE arg,
                     pre  |-> IF last.keep = "pre" THEN pre
                              ELSE IF last.keep = "run"
                                  THEN IF last.op = op /\ last.arg = arg THEN last.pre ELSE pre
                              ELSE NoPre,
                     keep |-> last.keep]
        /\ importer' = importer

undo_action ==
    /\ _undo_stack # <<>>
    /\ LET state == _undo_stack[Len(_undo_stack)]
           rs1 == Append(_redo_stack, _serialize_project(project))
           us1 == SubSeq(_undo_stack, 1, Len(_undo_stack) - 1)
           cur0 == GetTaskCur(current_task_id, project.tasks)
       IN  /\ CanApply(state)
           /\ \E r \in {_apply_project_dict(state, cur0, heap)} :
                  Done("undo_action", {}, Pre, r.project, r.current_task_id,
                       r.selected_field_ids, us1, rs1, _clipboard, r.heap, r.cache, NoEdit)

redo_action ==
    /\ _redo_stack # <<>>
    /\ LET state == _redo_stack[Len(_redo_stack)]
           us1 == Append(_undo_stack, _serialize_project(project))
           rs1 == SubSeq(_redo_stack, 1, Len(_redo_stack) - 1)
           cur0 == GetTaskCur(current_task_id, project.tasks)
       IN  /\ CanApply(state)
           /\ \E r \in {_apply_project_dict(state, cur0, heap)} :
                  Done("redo_action", {}, Pre, r.project, r.current_task_id,
                       r.selected_field_ids, us1, rs1, _clipboard, r.heap, r.cache, NoEdit)

----------------------------------------------------------------------------
(* Pending edits of the focused row *)

\* renaming field fid to new_name, and every field locked to it by origin
RenameLinked(tasks, fid, new_name) ==
    MapFields(tasks, LAMBDA fld :
        IF fld.id = fid THEN [fld EXCEPT !.name = new_name]
        ELSE IF fld.origin_field = fid /\ fld.name_lock_reason = "origem"
            THEN [fld EXCEPT !.name = new_name]
        ELSE fld)

\* _commit_row_data(field_obj): the tasks after the row's Entry text is stored
_commit_row_data(tasks, fid) ==
    LET ti == _get_task(current_task_id, tasks)
        row_idx == IF ti = 0 THEN 0 ELSE FieldIndex(tasks[ti].fields, fid)
    IN  IF row_idx = 0 \/ name_entry.fid # fid THEN tasks
        ELSE LET f == tasks[ti].fields[row_idx]
             IN  IF ~f.name_locked /\ name_entry.text # f.name
                 THEN RenameLinked(tasks, fid, name_entry.text)
                 ELSE tasks

\* _commit_active_edits(): the row of the focused widget is stored, and
\* ensure_once pushes one snapshot before the first change
_commit_active_edits ==
    LET t1 == _commit_row_data(project.tasks, name_entry.fid)
        changed == t1 # project.tasks
        p1 == [project EXCEPT !.tasks = t1]
    IN  [project |-> p1,
         us |-> IF changed THEN _push_undo(_undo_stack, _serialize_project(project))
                ELSE _undo_stack,
         rs |-> IF changed THEN <<>> ELSE _redo_stack,
         cache |-> IF changed THEN _rebuild_metadata_cache(p1) ELSE cache]

\* the user types text into the name Entry of a row of the active task
type_name(fid, text) ==
    LET ti == _get_task(current_task_id, project.tasks)
    IN  /\ ti # 0
        /\ \E f \in Range(project.tasks[ti].fields) :
              /\ f.id = fid
              /\ ~(f.name_lock_reason \in {"objeto", "origem"} \/ f.name_locked)
              /\ text # f.name
        /\ Done("type_name", {fid}, NoPre, project, current_task_id, selected_field_ids,
                _undo_stack, _redo_stack, _clipboard, heap, cache,
                [fid |-> fid, text |-> text])

\* <FocusOut> of the name Entry
_on_field_name_changed(fid) ==
    /\ name_entry.fid = fid
    /\ fid \in FieldIds(project)
    /\ LET us1 == _push_undo(_undo_stack, _serialize_project(project))
           cur0 == GetTaskCur(current_task_id, project.tasks)
           p0 == [project EXCEPT !.tasks = UpdateField(@, fid, LAMBDA f : [f EXCEPT !.name = name_entry.text])]
           p1 == [project EXCEPT !.tasks = RenameLinked(@, fid, name_entry.text)]
       IN  Done("_on_field_name_changed", {fid}, Pre, p1, cur0, selected_field_ids,
                us1, <<>>, _clipboard, heap, _rebuild_metadata_cache(p0), NoEdit)

----------------------------------------------------------------------------
(* Tasks dialog *)

cleanup_refs(tasks, deleted_field_ids) ==
    IF deleted_field_ids = {} THEN tasks
    ELSE MapFields(tasks, LAMBDA f :
        LET f1 == [f EXCEPT !.cond = SelectSeq(@, LAMBDA c : c.src_field \notin deleted_field_ids)]
        IN  IF f1.origin_field \in deleted_field_ids
            THEN LET reason == IF f1.name_lock_reason = "origem" THEN "" ELSE f1.name_lock_reason
                 IN  [f1 EXCEPT
                        !.name = IF f1.name_lock_reason = "origem" /\ f1.name_before_origin # ""
                                 THEN f1.name_before_origin ELSE @,
                        !.origin_task = None, !.origin_field = None,
                        !.name_lock_reason = reason,
                        !.name_locked = (reason # "")]
            ELSE f1)

refresh_all_ui(p, cur) ==
    LET cur1 == _refresh_task_combo(cur, p.tasks)
    IN  [project |-> [p EXCEPT !.tasks = _refresh_rows(cur1, p.tasks)],
         current_task_id |-> cur1,
         cache |-> _rebuild_metadata_cache(p)]

add_task_from_entry(name) ==
    /\ name # ""
    /\ CanUid(1)
    /\ LET us1 == _push_undo(_undo_stack, _serialize_project(project))
           cur0 == GetTaskCur(current_task_id, project.tasks)
           t == Task(_uid(1), name)
           p1 == [project EXCEPT !.tasks = Append(@, t)]
           cur1 == IF cur0 = None THEN t.id ELSE cur0
           r == refresh_all_ui(p1, cur1)
       IN  Done("add_task", {t.id}, Pre, r.project, r.current_task_id, selected_field_ids,
                us1, <<>>, _clipboard, heap, r.cache, NoEdit)

rename_task(tid, new) ==
    /\ tid \in TaskIds(project)
    /\ LET us1 == _push_undo(_undo_stack, _serialize_project(project))
           cur0 == GetTaskCur(current_task_id, project.tasks)
           p1 == [project EXCEPT !.tasks[TaskIndex(project.tasks, tid)].name = new]
           r == refresh_all_ui(p1, cur0)
       IN  Done("rename_task", {tid}, Pre, r.project, r.current_task_id, selected_field_ids,
                us1, <<>>, _clipboard, heap, r.cache, NoEdit)

delete_task(tid) ==
    /\ tid \in TaskIds(project)
    /\ LET us1 == _push_undo(_undo_stack, _serialize_project(project))
           cur0 == GetTaskCur(current_task_id, project.tasks)
           t == project.tasks[TaskIndex(project.tasks, tid)]
           deleted_ids == {f.id : f \in Range(t.fields)}
           cleaned == cleanup_refs(project.tasks, deleted_ids)
           p1 == [project EXCEPT !.tasks = SelectSeq(cleaned, LAMBDA x : x.id # tid)]
           cur1 == IF cur0 = tid
                   THEN (IF p1.tasks # <<>> THEN p1.tasks[1].id ELSE None)
                   ELSE cur0
           r == refresh_all_ui(p1, cur1)
       IN  Done("delete_task", deleted_ids, Pre, r.project, r.current_task_id,
                selected_field_ids, us1, <<>>, _clipboard, heap, r.cache, NoEdit)

move_task(tid, delta) ==
    LET tasks == project.tasks
        i == TaskIndex(tasks, tid)
        lo == IF i + delta < Len(tasks) THEN i + delta ELSE Len(tasks)
        j == IF lo > 1 THEN lo ELSE 1
    IN  /\ i # 0
        /\ j # i
        /\ LET us1 == _push_undo(_undo_stack, _serialize_project(project))
               cur0 == GetTaskCur(current_task_id, project.tasks)
               p1 == [project EXCEPT !.tasks = Swap(tasks, i, j)]
               r == refresh_all_ui(p1, cur0)
           IN  Done("move_task", {tid}, Pre, r.project, r.current_task_id,
                    selected_field_ids, us1, <<>>, _clipboard, heap, r.cache, NoEdit)

----------------------------------------------------------------------------
(* Rows of the main grid *)

\* right click on a row: pending edits are stored before the menu opens
_show_context_menu ==
    /\ name_entry # NoEdit
    /\ LET a == _commit_active_edits
           cur0 == GetTaskCur(current_task_id, project.tasks)
       IN  Done("_show_context_menu", {name_entry.fid}, Pre, a.project, cur0,
                selected_field_ids, a.us, a.rs, _clipboard, heap, a.cache, NoEdit)

_toggle_select(fid, val) ==
    LET ti == _get_task(current_task_id, project.tasks)
    IN  /\ ti # 0
        /\ fid \in {f.id : f \in Range(project.tasks[ti].fields)}
        /\ val = (fid \notin selected_field_ids)
        /\ val => Cardinality(selected_field_ids) < MaxSel
        /\ Done("_toggle_select", {fid}, NoPre, project, current_task_id,
                IF val THEN selected_field_ids \cup {fid} ELSE selected_field_ids \ {fid},
                _undo_stack, _redo_stack, _clipboard, heap, cache, name_entry)

_on_task_change(task_index) ==
    /\ task_index \in DOMAIN project.tasks
    /\ project.tasks[task_index].id # current_task_id
    /\ LET cur1 == project.tasks[task_index].id
       IN  Done("_on_task_change", {cur1}, NoPre,
                [project EXCEPT !.tasks = _refresh_rows(cur1, @)], cur1,
                selected_field_ids, _undo_stack, _redo_stack, _clipboard, heap, cache, NoEdit)

_add_field ==
    /\ project.tasks # <<>>
    /\ CanUid(1)
    /\ LET a == _commit_active_edits
           cur0 == GetTaskCur(current_task_id, project.tasks)
           ti == _get_task(current_task_id, project.tasks)
           us1 == _push_undo(a.us, _serialize_project(a.project))
           f == Field(_uid(1))
       IN  /\ ti # 0
           /\ LET p1 == [a.project EXCEPT !.tasks[ti].fields = Append(@, _add_row_widget(f))]
              IN  Done("_add_field", {f.id}, Pre, p1, cur0, selected_field_ids,
                       us1, <<>>, _clipboard, heap, _rebuild_metadata_cache(p1), NoEdit)

\* the loop of _delete_field, leaving the rules alone
DeleteFieldCleanupKeepRules(tasks, field_id) ==
    MapFields(tasks, LAMBDA f :
        IF f.origin_field = field_id
        THEN LET reason == IF f.name_lock_reason = "origem" THEN "" ELSE f.name_lock_reason
             IN  [f EXCEPT
                    !.name = IF f.name_lock_reason = "origem" /\ f.name_before_origin # ""
                             THEN f.name_before_origin ELSE @,
                    !.origin_task = None, !.origin_field = None,
                    !.name_lock_reason = reason,
                    !.name_locked = (reason # "")]
        ELSE f)

\* the loop of _delete_field over every field of every task
DeleteFieldCleanupKeepOrigin(tasks, field_id) ==
    MapFields(tasks, LAMBDA f :
        [f EXCEPT !.cond = SelectSeq(@, LAMBDA c : c.src_field # field_id)])

DeleteFieldCleanup(tasks, field_id) ==
    MapFields(tasks, LAMBDA f :
        LET f1 == [f EXCEPT !.cond = SelectSeq(@, LAMBDA c : c.src_field # field_id)]
        IN  IF f1.origin_field = field_id
            THEN LET reason == IF f1.name_lock_reason = "origem" THEN "" ELSE f1.name_lock_reason
                 IN  [f1 EXCEPT
                        !.name = IF f1.name_lock_reason = "origem" /\ f1.name_before_origin # ""
                                 THEN f1.name_before_origin ELSE @,
                        !.origin_task = None, !.origin_field = None,
                        !.name_lock_reason = reason,
                        !.name_locked = (reason # "")]
            ELSE f1)

\* the body of _delete_field: project, active task and cache afterwards
DeleteFieldBody(p, field_id) ==
    LET cur0 == GetTaskCur(current_task_id, p.tasks)
        ti == _get_task(current_task_id, p.tasks)
        cleaned == DeleteFieldCleanup(p.tasks, field_id)
        found == FieldIndex(cleaned[ti].fields, field_id) # 0
        removed == [cleaned EXCEPT ![ti].fields = SelectSeq(@, LAMBDA f : f.id # field_id)]
        \* the row is removed in place; without a row the grid is redrawn
        tasks1 == IF found THEN removed ELSE _refresh_rows(cur0, removed)
        p1 == [p EXCEPT !.tasks = tasks1]
    IN  [project |-> p1, current_task_id |-> cur0, cache |-> _rebuild_metadata_cache(p1)]

\* the x button of a row of the active task, or "Excluir Campo" of its menu
_delete_field(field_id) ==
    LET ti == _get_task(current_task_id, project.tasks)
    IN  /\ project.tasks # <<>>
        /\ ti # 0
        /\ FieldIndex(project.tasks[ti].fields, field_id) # 0
        /\ LET us1 == _push_undo(_undo_stack, _serialize_project(project))
               r == DeleteFieldBody(project, field_id)
           IN  Done("_delete_field", {field_id}, Pre, r.project, r.current_task_id,
                    selected_field_ids, us1, <<>>, _clipboard, heap, r.cache,
                    IF name_entry.fid = field_id THEN NoEdit ELSE name_entry)

delete_selected_fields ==
    LET a == _commit_active_edits
        cur0 == GetTaskCur(current_task_id, project.tasks)
        ti == _get_task(current_task_id, project.tasks)
        to_del == selected_field_ids
    IN  /\ selected_field_ids # {}
        /\ ti # 0
        /\ LET us1 == _push_undo(a.us, _serialize_project(a.project))
               cleaned == MapFields(a.project.tasks, LAMBDA f :
                   LET f1 == [f EXCEPT !.cond = SelectSeq(@, LAMBDA c : c.src_field \notin to_del)]
                   IN  IF f1.origin_field \in to_del
                       THEN LET reason == IF f1.name_lock_reason = "origem" THEN ""
                                          ELSE f1.name_lock_reason
                            IN  [f1 EXCEPT
                                   !.name = IF f1.name_lock_reason = "origem"
                                               /\ f1.name_before_origin # ""
                                            THEN f1.name_before_origin ELSE @,
                                   !.origin_task = None, !.origin_field = None,
                                   !.name_lock_reason = reason,
                                   !.name_locked = (reason # "")]
                       ELSE f1)
               removed == [cleaned EXCEPT ![ti].fields = SelectSeq(@, LAMBDA f : f.id \notin to_del)]
               p1 == [a.project EXCEPT !.tasks = removed]
               p2 == [p1 EXCEPT !.tasks = _refresh_rows(cur0, @)]
           IN  Done("delete_selected_fields", to_del, Pre, p2, cur0, {},
                    us1, <<>>, _clipboard, heap, _rebuild_metadata_cache(p1), NoEdit)

----------------------------------------------------------------------------
(* Clipboard *)

NoClip == [source_task_id |-> None, fields |-> <<>>]

FieldData(field) ==
    [id_origem |-> field.id, name |-> field.name, ftype |-> field.ftype,
     required |-> field.required, readonly |-> field.readonly, options |-> field.options,
     cond |-> MapSeq(field.cond, LAMBDA c : [src_field |-> c.src_field, op |-> c.op, value |-> c.value])]

_copy_selected_fields ==
    LET a == _commit_active_edits
        cur0 == GetTaskCur(current_task_id, project.tasks)
        ti == _get_task(current_task_id, project.tasks)
    IN  /\ selected_field_ids # {}
        /\ ti # 0
        /\ LET current_task == a.project.tasks[ti]
               fields_to_copy == MapSeq(SelectSeq(current_task.fields,
                                     LAMBDA f : f.id \in selected_field_ids), FieldData)
               clip1 == IF fields_to_copy # <<>>
                        THEN [source_task_id |-> current_task.id, fields |-> fields_to_copy]
                        ELSE NoClip
           IN  Done("_copy_selected_fields", selected_field_ids, Pre, a.project, cur0,
                    selected_field_ids, a.us, a.rs, clip1, heap, a.cache, NoEdit)

\* the clipboard after _copy_single_field(field)
CopySingle(p, field_id) ==
    LET ti == _get_task(current_task_id, p.tasks)
    IN  [source_task_id |-> p.tasks[ti].id, fields |-> <<FieldData(FieldById(p, field_id))>>]

\* "Copiar" of the row menu
_copy_single_field(field_id) ==
    LET ti == _get_task(current_task_id, project.tasks)
    IN  /\ name_entry = NoEdit
        /\ ti # 0
        /\ FieldIndex(project.tasks[ti].fields, field_id) # 0
        /\ Done("_copy_single_field", {field_id}, NoPre, project,
                GetTaskCur(current_task_id, project.tasks), selected_field_ids,
                _undo_stack, _redo_stack, CopySingle(project, field_id), heap, cache, name_entry)

\* "Recortar" of the row menu
_cut_single_field(field_id) ==
    LET ti == _get_task(current_task_id, project.tasks)
    IN  /\ name_entry = NoEdit
        /\ ti # 0
        /\ FieldIndex(project.tasks[ti].fields, field_id) # 0
        /\ LET us1 == _push_undo(_undo_stack, _serialize_project(project))
               r == DeleteFieldBody(project, field_id)
           IN  Done("_cut_single_field", {field_id}, Pre, r.project, r.current_task_id,
                    selected_field_ids, us1, <<>>, CopySingle(project, field_id), heap,
                    r.cache, name_entry)

----------------------------------------------------------------------------
(* Paste *)

\* the source of a pasted rule: remapped to the pasted copy of its source, else kept
PastedSrc(src_id_orig, original_to_new_id, all_ids) ==
    IF src_id_orig \in DOMAIN original_to_new_id THEN original_to_new_id[src_id_orig]
    ELSE IF src_id_orig \in all_ids THEN src_id_orig
    ELSE src_id_orig

\* the fields _execute_paste_as_copy appends to the target task
_execute_paste_as_copy(p) ==
    LET fields_to_paste == _clipboard.fields
        new_id == [i \in DOMAIN fields_to_paste |-> _uid(i)]
        original_to_new_id ==
            [o \in {fd.id_origem : fd \in Range(fields_to_paste)} |->
                new_id[CHOOSE i \in DOMAIN fields_to_paste :
                          /\ fields_to_paste[i].id_origem = o
                          /\ \A j \in DOMAIN fields_to_paste :
                                fields_to_paste[j].id_origem = o => j <= i]]
        all_ids == FieldIds(p) \cup Range(new_id)
        new_field(i) ==
            LET field_data == fields_to_paste[i]
                is_object == field_data.ftype = "Objeto"
                conds == MapSeq(field_data.cond, LAMBDA c :
                            Condition(PastedSrc(c.src_field, original_to_new_id, all_ids),
                                      c.op, c.value))
            IN  [Field(new_id[i]) EXCEPT
                    !.name = field_data.name, !.ftype = field_data.ftype,
                    !.required = field_data.required, !.readonly = field_data.readonly,
                    !.options = field_data.options,
                    !.name_locked = is_object,
                    !.name_lock_reason = IF is_object THEN "objeto" ELSE "",
                    !.obj_type = IF is_object THEN p.object_type ELSE "",
                    !.cond = conds]
    IN  [i \in DOMAIN fields_to_paste |-> new_field(i)]

\* whether the field named by the clipboard entry is pasted with a link
Linkable(p, field_data) == field_data.id_origem \in FieldIds(p)

\* the fields _execute_paste_with_origin appends to the target task
_execute_paste_with_origin(p) ==
    LET source_task_id == _clipboard.source_task_id
        live == SelectSeq(_clipboard.fields, LAMBDA fd : Linkable(p, fd))
        new_field(i) ==
            LET origin_field_id == live[i].id_origem
                origin_field_obj == FieldById(p, origin_field_id)
            IN  [Field(_uid(i)) EXCEPT
                    !.name = origin_field_obj.name,
                    !.ftype = origin_field_obj.ftype,
                    !.options = origin_field_obj.options,
                    !.origin_task = source_task_id,
                    !.origin_field = origin_field_id,
                    !.name_locked = TRUE,
                    !.name_lock_reason = "origem",
                    !.readonly = TRUE,
                    !.required = FALSE]
    IN  [i \in DOMAIN live |-> new_field(i)]

\* "Colar": choice is the answer of the paste dialog
_paste_fields(choice) ==
    LET a == _commit_active_edits
        cur0 == GetTaskCur(current_task_id, project.tasks)
        ti == _get_task(current_task_id, project.tasks)
    IN  /\ _clipboard.fields # <<>>
        /\ ti # 0
        /\ choice \in {"copy", "origin"}
        /\ CanUid(Len(_clipboard.fields))
        /\ LET us1 == _push_undo(a.us, _serialize_project(a.project))
               added == IF choice = "copy" THEN _execute_paste_as_copy(a.project)
                        ELSE _execute_paste_with_origin(a.project)
               p1 == [a.project EXCEPT !.tasks[ti].fields = @ \o added]
               p2 == [p1 EXCEPT !.tasks = _refresh_rows(cur0, @)]
           IN  Done(IF choice = "copy" THEN "paste_as_copy" ELSE "paste_with_origin",
                    {f.id : f \in Range(added)}, Pre, p2, cur0, {},
                    us1, <<>>, _clipboard, heap, _rebuild_metadata_cache(p1), NoEdit)

----------------------------------------------------------------------------
(* Row menu: duplicate and move *)

\* the field _duplicate_field builds from field, with the new id
DuplicateOf(field, id) ==
    [Field(id) EXCEPT
        !.name = field.name \o " (Cópia)", !.ftype = field.ftype,
        !.required = field.required, !.readonly = field.readonly,
        !.options = field.options,
        !.origin_task = None, !.origin_field = None,
        !.name_locked = field.name_locked, !.name_lock_reason = field.name_lock_reason,
        !.obj_type = field.obj_type,
        !.cond = MapSeq(field.cond, LAMBDA c : Condition(c.src_field, c.op, c.value))]

_duplicate_field(field_id) ==
    LET ti == _get_task(current_task_id, project.tasks)
        cur0 == GetTaskCur(current_task_id, project.tasks)
    IN  /\ name_entry = NoEdit
        /\ ti # 0
        /\ FieldIndex(project.tasks[ti].fields, field_id) # 0
        /\ CanUid(1)
        /\ LET us1 == _push_undo(_undo_stack, _serialize_project(project))
               original_index == FieldIndex(project.tasks[ti].fields, field_id)
               new_field == DuplicateOf(project.tasks[ti].fields[original_index], _uid(1))
               p1 == [project EXCEPT !.tasks[ti].fields = InsertAt(@, original_index + 1, new_field)]
               p2 == [p1 EXCEPT !.tasks = _refresh_rows(cur0, @)]
           IN  Done("_duplicate_field", {field_id, new_field.id}, Pre, p2, cur0,
                    selected_field_ids, us1, <<>>, _clipboard, heap,
                    _rebuild_metadata_cache(p1), NoEdit)

_move_field(field_id, delta) ==
    LET ti == _get_task(current_task_id, project.tasks)
        cur0 == GetTaskCur(current_task_id, project.tasks)
    IN  /\ ti # 0
        /\ LET fields == project.tasks[ti].fields
               idx == FieldIndex(fields, field_id)
               new_idx == idx + delta
           IN  /\ idx # 0
               /\ IF new_idx \in DOMAIN fields
                  THEN LET us1 == _push_undo(_undo_stack, _serialize_project(project))
                           p1 == [project EXCEPT !.tasks[ti].fields = Swap(fields, idx, new_idx)]
                       IN  Done("_move_field", {field_id}, Pre, p1, cur0, selected_field_ids,
                                us1, <<>>, _clipboard, heap, _rebuild_metadata_cache(p1),
                                name_entry)
                  \* the first row has no row above it, the last none below
                  ELSE Done("_move_field", {field_id}, Pre, project, cur0, selected_field_ids,
                            _undo_stack, _redo_stack, _clipboard, heap, cache, name_entry)

_move_field_to_top(field_id) ==
    LET ti == _get_task(current_task_id, project.tasks)
        cur0 == GetTaskCur(current_task_id, project.tasks)
    IN  /\ name_entry = NoEdit
        /\ ti # 0
        /\ LET fields == project.tasks[ti].fields
               idx == FieldIndex(fields, field_id)
           IN  /\ idx # 0
               /\ LET us1 == _push_undo(_undo_stack, _serialize_project(project))
                      p1 == [project EXCEPT !.tasks[ti].fields = <<fields[idx]>> \o RemoveAt(fields, idx)]
                      p2 == [p1 EXCEPT !.tasks = _refresh_rows(cur0, @)]
                  IN  Done("_move_field_to_top", {field_id}, Pre, p2, cur0, selected_field_ids,
                           us1, <<>>, _clipboard, heap, cache, NoEdit)

_move_field_to_end(field_id) ==
    LET ti == _get_task(current_task_id, project.tasks)
        cur0 == GetTaskCur(current_task_id, project.tasks)
    IN  /\ name_entry = NoEdit
        /\ ti # 0
        /\ LET fields == project.tasks[ti].fields
               idx == FieldIndex(fields, field_id)
           IN  /\ idx # 0
               /\ LET us1 == _push_undo(_undo_stack, _serialize_project(project))
                      p1 == [project EXCEPT !.tasks[ti].fields = Append(RemoveAt(fields, idx), fields[idx])]
                      p2 == [p1 EXCEPT !.tasks = _refresh_rows(cur0, @)]
                  IN  Done("_move_field_to_end", {field_id}, Pre, p2, cur0, selected_field_ids,
                           us1, <<>>, _clipboard, heap, cache, NoEdit)

----------------------------------------------------------------------------
(* Type, flags and options of a row *)

\* the dialog "Tipo do objeto do fluxo", OK pressed with name
SetObjectType(tasks, name) ==
    MapFields(tasks, LAMBDA f :
        IF f.ftype = "Objeto"
        THEN [f EXCEPT !.obj_type = name, !.name = name,
                       !.name_lock_reason = "objeto", !.name_locked = TRUE]
        ELSE f)

open_flow_object_type_dialog(name) ==
    /\ name # ""
    /\ LET us1 == _push_undo(_undo_stack, _serialize_project(project))
           cur0 == GetTaskCur(current_task_id, project.tasks)
           p1 == [project EXCEPT !.object_type = name, !.tasks = SetObjectType(@, name)]
           p2 == [p1 EXCEPT !.tasks = _refresh_rows(cur0, @)]
       IN  Done("set_object_type", {}, Pre, p2, cur0, selected_field_ids, us1, <<>>,
                _clipboard, heap, _rebuild_metadata_cache(p1), NoEdit)

\* the guard "Só 1 Objeto por tarefa"
OtherObjetoIgnored(fields, fid) == FALSE

OtherObjeto(fields, fid) == \E x \in Range(fields) : x.ftype = "Objeto" /\ x.id # fid

\* the field after the assignments of _on_change_type
Retyped(f, prev, new_type, object_type) ==
    LET f1 ==
          IF new_type = "Objeto"
          THEN [f EXCEPT !.ftype = "Objeto",
                         !.name_before_obj = IF f.name_lock_reason # "objeto" THEN f.name ELSE @,
                         !.name = IF object_type # "" THEN object_type ELSE "Objeto",
                         !.name_lock_reason = "objeto", !.name_locked = TRUE,
                         !.obj_type = object_type]
          ELSE IF prev = "Objeto"
          THEN LET reason == IF f.name_lock_reason = "objeto" THEN "" ELSE f.name_lock_reason
               IN  [f EXCEPT !.name = IF f.name_lock_reason = "objeto" /\ f.name_before_obj # ""
                                      THEN f.name_before_obj ELSE @,
                             !.name_lock_reason = reason,
                             !.name_locked = (reason # ""),
                             !.obj_type = "",
                             !.ftype = new_type]
          ELSE [f EXCEPT !.ftype = new_type]
        f2 == IF new_type = "Informativo" THEN [f1 EXCEPT !.readonly = TRUE] ELSE f1
    IN  IF new_type \notin LIST_FIELD_TYPES /\ new_type # "Informativo"
        THEN [f2 EXCEPT !.options = ""] ELSE f2

\* the option menu of the type column; dialog_name is what the user enters when the
\* object type dialog opens ("" when the dialog is closed without OK)
_on_change_type(fid, new_type, dialog_name) ==
    LET ti == _get_task(current_task_id, project.tasks)
        cur0 == GetTaskCur(current_task_id, project.tasks)
    IN  /\ ti # 0
        /\ FieldIndex(project.tasks[ti].fields, fid) # 0
        /\ new_type \in TYPE_VALUES
        /\ LET t0 == _commit_row_data(project.tasks, fid)
               p0 == [project EXCEPT !.tasks = t0]
               cache0 == IF t0 # project.tasks THEN _rebuild_metadata_cache(p0) ELSE cache
               f == FieldById(p0, fid)
               prev == f.ftype
               entry1 == IF name_entry.fid = fid THEN NoEdit ELSE name_entry
               us1 == _push_undo(_undo_stack, _serialize_project(p0))
               rejected == new_type = "Objeto" /\
                              (\/ f.origin_task # None \/ f.origin_field # None
                               \/ OtherObjeto(p0.tasks[ti].fields, fid))
               needs_dialog == new_type = "Objeto" /\ ~rejected /\ p0.object_type = ""
           IN  /\ (dialog_name # "") => needs_dialog
               /\ IF new_type = prev
                  THEN Done("_on_change_type", {fid}, Pre, p0, cur0, selected_field_ids,
                            _undo_stack, _redo_stack, _clipboard, heap, cache0, entry1)
                  ELSE IF rejected \/ (needs_dialog /\ dialog_name = "")
                  THEN Done("_on_change_type", {fid}, Pre, p0, cur0, selected_field_ids,
                            us1, <<>>, _clipboard, heap, cache0, entry1)
                  ELSE LET \* the dialog pushes its own snapshot and redraws the rows
                           us2 == IF needs_dialog
                                  THEN _push_undo(us1, _serialize_project(p0)) ELSE us1
                           p1 == IF needs_dialog
                                 THEN [p0 EXCEPT !.object_type = dialog_name,
                                                 !.tasks = _refresh_rows(cur0,
                                                              SetObjectType(@, dialog_name))]
                                 ELSE p0
                           f1 == Retyped(FieldById(p1, fid), prev, new_type, p1.object_type)
                           p2 == [p1 EXCEPT !.tasks = UpdateField(@, fid, LAMBDA x : f1)]
                           cache1 == IF f1.name_locked \/ prev = "Objeto"
                                     THEN _rebuild_metadata_cache(p2)
                                     ELSE IF needs_dialog THEN _rebuild_metadata_cache(p1)
                                     ELSE cache0
                       IN  Done("_on_change_type", {fid}, Pre, p2, cur0, selected_field_ids,
                                us2, <<>>, _clipboard, heap, cache1,
                                IF needs_dialog THEN NoEdit ELSE entry1)

\* the checkbox of the read-only column
_set_readonly(fid, val) ==
    LET ti == _get_task(current_task_id, project.tasks)
        cur0 == GetTaskCur(current_task_id, project.tasks)
    IN  /\ ti # 0
        /\ FieldIndex(project.tasks[ti].fields, fid) # 0
        /\ LET t0 == _commit_row_data(project.tasks, fid)
               p0 == [project EXCEPT !.tasks = t0]
               cache0 == IF t0 # project.tasks THEN _rebuild_metadata_cache(p0) ELSE cache
               us1 == _push_undo(_undo_stack, _serialize_project(p0))
               p1 == [p0 EXCEPT !.tasks = UpdateField(@, fid, LAMBDA f :
                         [f EXCEPT !.readonly = IF f.ftype = "Informativo" THEN TRUE ELSE val])]
           IN  Done("_set_readonly", {fid}, Pre, p1, cur0, selected_field_ids, us1, <<>>,
                    _clipboard, heap, cache0,
                    IF name_entry.fid = fid THEN NoEdit ELSE name_entry)

\* the checkbox of the required column
set_required(fid, val) ==
    LET ti == _get_task(current_task_id, project.tasks)
        cur0 == GetTaskCur(current_task_id, project.tasks)
    IN  /\ ti # 0
        /\ FieldIndex(project.tasks[ti].fields, fid) # 0
        /\ LET us1 == _push_undo(_undo_stack, _serialize_project(project))
               p1 == [project EXCEPT !.tasks = UpdateField(@, fid, LAMBDA f :
                         [f EXCEPT !.required = val])]
           IN  Done("set_required", {fid}, Pre, p1, cur0, selected_field_ids, us1, <<>>,
                    _clipboard, heap, cache, name_entry)

\* <FocusOut> of the options Entry of a row that is not an Objeto row
set_options(fid, text) ==
    LET ti == _get_task(current_task_id, project.tasks)
        cur0 == GetTaskCur(current_task_id, project.tasks)
    IN  /\ ti # 0
        /\ FieldIndex(project.tasks[ti].fields, fid) # 0
        /\ FieldById(project, fid).ftype # "Objeto"
        /\ LET us1 == _push_undo(_undo_stack, _serialize_project(project))
               p1 == [project EXCEPT !.tasks = UpdateField(@, fid, LAMBDA f :
                         [f EXCEPT !.options = text])]
           IN  Done("set_options", {fid}, Pre, p1, cur0, selected_field_ids, us1, <<>>,
                    _clipboard, heap, cache, name_entry)

----------------------------------------------------------------------------
(* Origin picker.  The dialog is modal: opening it, one button and its      *)
(* closing are one step.                                                    *)

\* the assignments of ok() with the type of f left as it was
LinkedTypeKept(f, target_tid, origin_field, force_ro, force_req) ==
    [f EXCEPT
        !.origin_task = target_tid,
        !.origin_field = origin_field.id,
        !.name_before_origin = IF f.name_lock_reason # "origem" THEN f.name ELSE @,
        !.name = origin_field.name,
        !.options = origin_field.options,
        !.name_lock_reason = "origem",
        !.name_locked = TRUE,
        !.readonly = force_ro,
        !.required = force_req]

\* the assignments of ok(): field f linked to origin_field of task target_tid
Linked(f, target_tid, origin_field, force_ro, force_req) ==
    [f EXCEPT
        !.origin_task = target_tid,
        !.origin_field = origin_field.id,
        !.name_before_origin = IF f.name_lock_reason # "origem" THEN f.name ELSE @,
        !.name = origin_field.name,
        !.ftype = origin_field.ftype,
        !.options = origin_field.options,
        !.name_lock_reason = "origem",
        !.name_locked = TRUE,
        !.readonly = force_ro,
        !.required = force_req]

\* OK with the task sel_t and the field sel_f chosen in the two combo boxes
open_origin_picker_ok(fid, sel_t, sel_f) ==
    LET ti == _get_task(current_task_id, project.tasks)
        cur0 == GetTaskCur(current_task_id, project.tasks)
    IN  /\ ti # 0
        /\ FieldIndex(project.tasks[ti].fields, fid) # 0
        /\ name_entry.fid \in {None, fid}
        /\ LET t0 == _commit_row_data(project.tasks, fid)
               p0 == [project EXCEPT !.tasks = t0]
               f == FieldById(p0, fid)
               target == FirstIndex(p0.tasks, LAMBDA t : t.name = sel_t)
           IN  /\ f.ftype # "Objeto"
               /\ target # 0
               /\ sel_f \notin {"", "-"}
               /\ LET k == FirstIndex(p0.tasks[target].fields, LAMBDA fld : fld.name = sel_f)
                      cache0 == IF t0 # project.tasks THEN _rebuild_metadata_cache(p0)
                                ELSE cache
                  IN  IF k = 0
                      THEN \* "Campo de origem não encontrado."
                           Done("set_origin", {fid}, Pre, p0, cur0, selected_field_ids,
                                _undo_stack, _redo_stack, _clipboard, heap, cache0, NoEdit)
                      ELSE LET origin_field == p0.tasks[target].fields[k]
                             is_ro == IF f.origin_field # None THEN f.readonly ELSE TRUE
                             is_req == IF f.origin_field # None THEN f.required ELSE FALSE
                             us1 == _push_undo(_undo_stack, _serialize_project(p0))
                             f1 == Linked(f, p0.tasks[target].id, origin_field, is_ro, is_req)
                             p1 == [p0 EXCEPT !.tasks = UpdateField(@, fid, LAMBDA x : f1)]
                         IN  Done("set_origin", {fid}, Pre, p1, cur0, selected_field_ids,
                                  us1, <<>>, _clipboard, heap, _rebuild_metadata_cache(p1),
                                  NoEdit)

\* the button "Limpar"
open_origin_picker_clear(fid) ==
    LET ti == _get_task(current_task_id, project.tasks)
        cur0 == GetTaskCur(current_task_id, project.tasks)
    IN  /\ ti # 0
        /\ FieldIndex(project.tasks[ti].fields, fid) # 0
        /\ name_entry.fid \in {None, fid}
        /\ LET t0 == _commit_row_data(project.tasks, fid)
               p0 == [project EXCEPT !.tasks = t0]
               f == FieldById(p0, fid)
               us1 == _push_undo(_undo_stack, _serialize_project(p0))
               reason == IF f.name_lock_reason = "origem" THEN "" ELSE f.name_lock_reason
               f1 == [f EXCEPT
                       !.name = IF f.name_lock_reason = "origem" /\ f.name_before_origin # ""
                                THEN f.name_before_origin ELSE @,
                       !.origin_task = None, !.origin_field = None,
                       !.name_lock_reason = reason,
                       !.name_locked = (reason # "")]
               p1 == [p0 EXCEPT !.tasks = UpdateField(@, fid, LAMBDA x : f1)]
           IN  /\ f.ftype # "Objeto"
               /\ Done("clear_origin", {fid}, Pre, p1, cur0, selected_field_ids,
                       us1, <<>>, _clipboard, heap, _rebuild_metadata_cache(p1), NoEdit)

----------------------------------------------------------------------------
(* Rule builder, a modal dialog as well *)

\* str.split(";") with strip, for the option strings that occur here
OptionItems(options) ==
    CASE options = "" -> <<>>
      [] options \in {"Sim;Não", "Sim; Não"} -> <<"Sim", "Não">>
      [] OTHER -> <<options>>

_list_options_for_field(fld) ==
    IF fld.ftype \in LIST_FIELD_TYPES THEN OptionItems(fld.options) ELSE <<>>

\* the test "Esta regra já existe." left out
RuleExistsIgnored(f, fld, val) == FALSE

\* the test "Esta regra já existe."
RuleExists(f, fld, val) ==
    \E c \in Range(f.cond) : c.src_field = fld.id /\ c.op = "==" /\ c.value = val

\* "Adicionar regra" with base field name sel and value val
add_cond(fid, sel, val) ==
    LET ti == _get_task(current_task_id, project.tasks)
        cur0 == GetTaskCur(current_task_id, project.tasks)
    IN  /\ ti # 0
        /\ FieldIndex(project.tasks[ti].fields, fid) # 0
        /\ name_entry.fid \in {None, fid}
        /\ LET t0 == _commit_row_data(project.tasks, fid)
               p0 == [project EXCEPT !.tasks = t0]
               cache0 == IF t0 # project.tasks THEN _rebuild_metadata_cache(p0) ELSE cache
               cur == p0.tasks[ti]
               f == FieldById(p0, fid)
               base_names == {fld.name : fld \in {x \in Range(cur.fields) : x.id # fid}}
               k == FirstIndex(cur.fields, LAMBDA fld : fld.name = sel)
           IN  /\ sel \in base_names
               /\ k # 0
               /\ LET fld == cur.fields[k]
                      opts == _list_options_for_field(fld)
                      us1 == _push_undo(_undo_stack, _serialize_project(p0))
                      p1 == [p0 EXCEPT !.tasks = UpdateField(@, fid, LAMBDA x :
                               [x EXCEPT !.cond = Append(@, Condition(fld.id, "==", val))])]
                  IN  /\ val # ""
                      /\ opts # <<>> => val \in Range(opts)
                      /\ IF RuleExists(f, fld, val)
                         THEN \* "Esta regra já existe."
                              Done("add_cond", {fid}, Pre, p0, cur0, selected_field_ids,
                                   _undo_stack, _redo_stack, _clipboard, heap, cache0,
                                   NoEdit)
                         ELSE Done("add_cond", {fid}, Pre, p1, cur0, selected_field_ids,
                                   us1, <<>>, _clipboard, heap, cache0, NoEdit)

\* the x button of rule idx
remove_cond(fid, idx) ==
    LET ti == _get_task(current_task_id, project.tasks)
        cur0 == GetTaskCur(current_task_id, project.tasks)
    IN  /\ ti # 0
        /\ FieldIndex(project.tasks[ti].fields, fid) # 0
        /\ name_entry.fid \in {None, fid}
        /\ LET t0 == _commit_row_data(project.tasks, fid)
               p0 == [project EXCEPT !.tasks = t0]
               cache0 == IF t0 # project.tasks THEN _rebuild_metadata_cache(p0) ELSE cache
               f == FieldById(p0, fid)
               us1 == _push_undo(_undo_stack, _serialize_project(p0))
               p1 == [p0 EXCEPT !.tasks = UpdateField(@, fid, LAMBDA x :
                        [x EXCEPT !.cond = RemoveAt(@, idx)])]
           IN  /\ idx \in DOMAIN f.cond
               /\ Done("remove_cond", {fid}, Pre, p1, cur0, selected_field_ids,
                       us1, <<>>, _clipboard, heap, cache0, NoEdit)

----------------------------------------------------------------------------
(* Object schema editor *)

\* "for i, ofd in enumerate(self.project.object_schema): ofd.order = i"
Renumber(h, schema) ==
    [r \in DOMAIN h |->
        IF r \in Range(schema)
        THEN [h[r] EXCEPT !.order = Min({i \in DOMAIN schema : schema[i] = r}) - 1]
        ELSE h[r]]

\* the editor opens: without an object type the type dialog comes first, and the
\* entries are renumbered
open_object_schema_editor(dialog_name) ==
    LET asks == project.object_type = ""
        cur0 == GetTaskCur(current_task_id, project.tasks)
        p1 == IF asks
              THEN [project EXCEPT !.object_type = dialog_name,
                                   !.tasks = _refresh_rows(cur0, SetObjectType(@, dialog_name))]
              ELSE project
    IN  [opens |-> IF asks THEN dialog_name # "" ELSE dialog_name = "",
         project |-> p1,
         us |-> IF asks THEN _push_undo(_undo_stack, _serialize_project(project))
                ELSE _undo_stack,
         rs |-> IF asks THEN <<>> ELSE _redo_stack,
         cache |-> IF asks THEN _rebuild_metadata_cache(p1) ELSE cache,
         name_entry |-> IF asks THEN NoEdit ELSE name_entry,
         heap |-> Renumber(heap, project.object_schema)]

\* "+ Campo do objeto", then "Salvar" with name
schema_add(dialog_name, name) ==
    LET o == open_object_schema_editor(dialog_name)
        cur0 == GetTaskCur(current_task_id, project.tasks)
    IN  /\ o.opens
        /\ FreeRefs(o.heap) # {}
        /\ LET us1 == _push_undo(o.us, _serialize_project(o.project))
               a == AllocAll(o.heap, <<ObjectFieldDef(name, Len(o.project.object_schema))>>)
           IN  IF name = ""
               THEN Done("schema_add", {}, Pre, o.project, cur0, selected_field_ids,
                         us1, <<>>, _clipboard, o.heap, o.cache, o.name_entry)
               ELSE Done("schema_add", {}, Pre,
                         [o.project EXCEPT !.object_schema = @ \o a.refs], cur0,
                         selected_field_ids, us1, <<>>, _clipboard, a.heap, o.cache,
                         o.name_entry)

\* "Editar" of the entry at index i, then "Salvar" with name
schema_edit(dialog_name, i, name) ==
    LET o == open_object_schema_editor(dialog_name)
        cur0 == GetTaskCur(current_task_id, project.tasks)
    IN  /\ o.opens
        /\ i \in DOMAIN o.project.object_schema
        /\ LET ref == o.project.object_schema[i]
               us1 == _push_undo(o.us, _serialize_project(o.project))
               h1 == IF name = "" THEN o.heap ELSE [o.heap EXCEPT ![ref].name = name]
           IN  Done("schema_edit", {ref}, Pre, o.project, cur0, selected_field_ids,
                    us1, <<>>, _clipboard, h1, o.cache, o.name_entry)

\* the x button of the entry at index i, confirmed
schema_remove(dialog_name, i) ==
    LET o == open_object_schema_editor(dialog_name)
        cur0 == GetTaskCur(current_task_id, project.tasks)
    IN  /\ o.opens
        /\ i \in DOMAIN o.project.object_schema
        /\ LET ref == o.project.object_schema[i]
               us1 == _push_undo(o.us, _serialize_project(o.project))
               schema1 == SelectSeq(o.project.object_schema, LAMBDA x : x # ref)
           IN  Done("schema_remove", {ref}, Pre,
                    [o.project EXCEPT !.object_schema = schema1], cur0, selected_field_ids,
                    us1, <<>>, _clipboard, Renumber(o.heap, schema1), o.cache, o.name_entry)

----------------------------------------------------------------------------
(* Flow validator, a modal dialog: one button of one warning is one step *)

\* _run_validation reports BAD_ORIGIN for the fields whose origin is no field
BadOrigin(p) ==
    {f.id : f \in {x \in AllFields(p) :
                      x.origin_field # None /\ x.origin_field \notin FieldIds(p)}}

\* the button "Limpar Origem" of the warning BAD_ORIGIN of field fid
validator_clear_origin(fid) ==
    /\ name_entry = NoEdit
    /\ fid \in BadOrigin(project)
    /\ LET us1 == _push_undo(_undo_stack, _serialize_project(project))
           p1 == [project EXCEPT !.tasks = UpdateField(@, fid, LAMBDA f :
                     [f EXCEPT !.origin_field = None, !.origin_task = None])]
           r == refresh_all_ui(p1, current_task_id)
       IN  Done("validator_clear_origin", {fid}, Pre, r.project, r.current_task_id,
                selected_field_ids, us1, <<>>, _clipboard, heap, r.cache, NoEdit)

----------------------------------------------------------------------------
(* Flow *)

rename_flow(new) ==
    LET us1 == _push_undo(_undo_stack, _serialize_project(project))
        cur0 == GetTaskCur(current_task_id, project.tasks)
    IN  Done("rename_flow", {}, Pre, [project EXCEPT !.flow_name = new], cur0,
             selected_field_ids, us1, <<>>, _clipboard, heap, cache, name_entry)

\* "Novo vazio", confirmed
new_flow_blank ==
    LET pushes == project.tasks # <<>> \/ project.object_type # ""
        us1 == IF pushes THEN _push_undo(_undo_stack, _serialize_project(project))
               ELSE _undo_stack
        rs1 == IF pushes THEN <<>> ELSE _redo_stack
    IN  Done("new_flow_blank", {}, Pre, ProjectModel, None, {}, us1, rs1, _clipboard,
             heap, _rebuild_metadata_cache(ProjectModel), NoEdit)

\* json.loads makes the dictionaries of data["object_schema"]; they are objects too
Loaded(data, h) ==
    LET a == AllocAll(h, data.object_schema)
    IN  [d |-> [data EXCEPT !.object_schema = a.refs], heap |-> a.heap]

CanLoad(data) == Cardinality(FreeRefs(heap)) >= 2 * Len(data.object_schema)

\* "Abrir" with a file holding the project dictionary data
open_project(data) ==
    /\ CanLoad(data)
    /\ LET l == Loaded(data, heap)
           r == _apply_project_dict(l.d, current_task_id, l.heap)
       IN  Done("open_project", {}, Pre, r.project, r.current_task_id,
                r.selected_field_ids, <<>>, <<>>, _clipboard, r.heap, r.cache, NoEdit)

\* "Aplicar" in the templates dialog, with the stored template t, confirmed
apply_sel(t) ==
    /\ CanLoad(t.project)
    /\ LET l == Loaded(t.project, heap)
           r == _apply_project_dict(l.d, current_task_id, l.heap)
       IN  Done("apply_sel", {}, Pre, r.project, r.current_task_id,
                r.selected_field_ids, _undo_stack, _redo_stack, _clipboard, r.heap,
                r.cache, NoEdit)

\* the options joined with ";" and no space
JoinOptionsTight(opcoes) ==
    IF opcoes = <<>> THEN ""
    ELSE IF Len(opcoes) = 1 THEN opcoes[1]
    ELSE opcoes[1] \o ";" \o opcoes[2]

RECURSIVE JoinOptions(_)
JoinOptions(opcoes) ==
    IF opcoes = <<>> THEN ""
    ELSE IF Len(opcoes) = 1 THEN opcoes[1]
    ELSE opcoes[1] \o "; " \o JoinOptions(Tail(opcoes))

\* imported_data["fields_by_task"].get(task_data["id"], [])
FieldsFor(imported_data, task_data) ==
    IF task_data.id \in DOMAIN imported_data.fields_by_task
    THEN imported_data.fields_by_task[task_data.id]
    ELSE <<>>

\* how many times _uid() was called before the task at index k is made
RECURSIVE CallsBefore(_, _)
CallsBefore(imported_data, k) ==
    IF k = 1 THEN 0
    ELSE CallsBefore(imported_data, k - 1) + 1
         + Len(FieldsFor(imported_data, imported_data.tasks[k - 1]))

\* the task made for the candidate at index k, with its decision fields
ImportedTask(imported_data, k) ==
    LET task_data == imported_data.tasks[k]
        fields_for_this_task == FieldsFor(imported_data, task_data)
        n == CallsBefore(imported_data, k)
    IN  [Task(_uid(n + 1), task_data.name) EXCEPT
            !.fields = [i \in DOMAIN fields_for_this_task |->
                [Field(_uid(n + 1 + i)) EXCEPT
                    !.name = fields_for_this_task[i].campo,
                    !.ftype = "Lista",
                    !.options = JoinOptions(fields_for_this_task[i].opcoes)]]]

\* the importer naming the flow after the diagram without looking at the label
open_bpmn_importerAlwaysNamed(imported_data) ==
    /\ CanUid(CallsBefore(imported_data, Len(imported_data.tasks) + 1))
    /\ LET us1 == _push_undo(_undo_stack, _serialize_project(project))
           cur0 == GetTaskCur(current_task_id, project.tasks)
           selected_diag_label == imported_data.diagram_label
           newly_added_tasks ==
               [k \in DOMAIN imported_data.tasks |-> ImportedTask(imported_data, k)]
           p1 == [project EXCEPT
                    !.flow_name = selected_diag_label,
                    !.tasks = @ \o newly_added_tasks]
           cur1 == _refresh_task_combo(cur0, p1.tasks)
           p2 == [p1 EXCEPT !.tasks = _refresh_rows(cur1, @)]
       IN  Done("open_bpmn_importer", {t.id : t \in Range(newly_added_tasks)}, Pre, p2, cur1,
                selected_field_ids, us1, <<>>, _clipboard, heap,
                _rebuild_metadata_cache(p1), NoEdit)

\* the BPMN importer closed with the result imported_data
open_bpmn_importer(imported_data) ==
    /\ CanUid(CallsBefore(imported_data, Len(imported_data.tasks) + 1))
    /\ LET us1 == _push_undo(_undo_stack, _serialize_project(project))
           cur0 == GetTaskCur(current_task_id, project.tasks)
           selected_diag_label == imported_data.diagram_label
           newly_added_tasks ==
               [k \in DOMAIN imported_data.tasks |-> ImportedTask(imported_data, k)]
           p1 == [project EXCEPT
                    !.flow_name = IF selected_diag_label # "" THEN selected_diag_label ELSE @,
                    !.tasks = @ \o newly_added_tasks]
           cur1 == _refresh_task_combo(cur0, p1.tasks)
           p2 == [p1 EXCEPT !.tasks = _refresh_rows(cur1, @)]
       IN  Done("open_bpmn_importer", {t.id : t \in Range(newly_added_tasks)}, Pre, p2, cur1,
                selected_field_ids, us1, <<>>, _clipboard, heap,
                _rebuild_metadata_cache(p1), NoEdit)

----------------------------------------------------------------------------
(* What the user enters, and the files on disk *)

FieldNames == {"X"}          \* text typed in a name Entry
TaskNames == {"Nova"}        \* text typed in the tasks dialog
ObjectNames == {"Doc"}       \* text typed in the object type dialog
FlowNames == {"Fluxo"}       \* text typed in the flow name prompt
RuleValues == {"Sim"}        \* value of a new rule
OptionTexts == {"Sim;Não"}   \* text typed in an options Entry
SchemaNames == {"", "Juros"} \* text typed in the schema entry dialog

\* a project saved with one task: b shows when a is "Sim"
Triagem ==
    [flow_name |-> "Triagem", object_type |-> "", object_schema |-> <<>>,
     tasks |-> <<
        [id |-> "t1", name |-> "Triagem",
         fields |-> <<
            FieldDict([Field("a") EXCEPT !.name = "A", !.ftype = "Lista",
                                         !.options = "Sim;Não"]),
            FieldDict([Field("b") EXCEPT !.name = "B",
                                         !.cond = <<Condition("a", "==", "Sim")>>]) >>] >>]

\* a project saved with two tasks: c takes its value from a
Vinculo ==
    [flow_name |-> "Vínculo", object_type |-> "", object_schema |-> <<>>,
     tasks |-> <<
        [id |-> "t1", name |-> "Triagem",
         fields |-> <<
            FieldDict([Field("a") EXCEPT !.name = "A", !.ftype = "Lista",
                                         !.options = "Sim;Não"]) >>],
        [id |-> "t2", name |-> "Análise",
         fields |-> <<
            FieldDict([Field("c") EXCEPT !.name = "A", !.ftype = "Lista",
                                         !.options = "Sim;Não", !.readonly = TRUE,
                                         !.origin_task = "t1", !.origin_field = "a",
                                         !.name_locked = TRUE, !.name_lock_reason = "origem",
                                         !.name_before_origin = "C"]) >>] >>]

\* a project file in which the origin of c names a field that is not in the file
Orfao ==
    [flow_name |-> "Órfão", object_type |-> "", object_schema |-> <<>>,
     tasks |-> <<
        [id |-> "t2", name |-> "Análise",
         fields |-> <<
            FieldDict([Field("c") EXCEPT !.name = "A", !.ftype = "Lista",
                                         !.options = "Sim;Não", !.readonly = TRUE,
                                         !.origin_task = "t1", !.origin_field = "a",
                                         !.name_locked = TRUE, !.name_lock_reason = "origem",
                                         !.name_before_origin = "C"]) >>] >>]

\* a project saved with an object type and its Objeto field
Contrato ==
    [flow_name |-> "Contrato", object_type |-> "Obj", object_schema |-> <<>>,
     tasks |-> <<
        [id |-> "t1", name |-> "Cadastro",
         fields |-> <<
            FieldDict([Field("o") EXCEPT !.name = "Obj", !.ftype = "Objeto",
                                         !.name_locked = TRUE, !.name_lock_reason = "objeto",
                                         !.obj_type = "Obj"]),
            FieldDict([Field("d") EXCEPT !.name = "D"]) >>] >>]

\* a project saved with an object schema of two entries
Esquema ==
    [flow_name |-> "Esquema", object_type |-> "Obj",
     object_schema |-> << ObjectFieldDef("Valor", 0), ObjectFieldDef("Prazo", 1) >>,
     tasks |-> <<>>]

\* two decisions read from a diagram
Gateway == [campo |-> "Aprovado?", opcoes |-> <<"Sim", "Não">>]

Urgencia == [campo |-> "Urgência", opcoes |-> <<"Alta">>]

\* what the BPMN importer returns: a diagram with one task and no decision, and a
\* diagram with two tasks, a decision after each
Simples(label) ==
    [diagram_label |-> label,
     tasks |-> << [id |-> "g1", name |-> "Decidir"] >>,
     fields_by_task |-> [g \in {} |-> <<>>]]

Decisoes(label) ==
    [diagram_label |-> label,
     tasks |-> << [id |-> "g1", name |-> "Decidir"], [id |-> "g2", name |-> "Arquivar"] >>,
     fields_by_task |-> [g \in {"g1", "g2"} |->
                           IF g = "g1" THEN <<Gateway>> ELSE <<Urgencia>>]]

----------------------------------------------------------------------------
(* Text: str.lower, str.split, the order of str, and normalize_label *)

\* the characters of the texts modelled, in the order of their code points
CodePoints == "\t\n\r .ABCDEFGHIJKLMNOPQRSTUVWXYZabcdefghijklmnopqrstuvwxyzÃã"

UpperCase == "ABCDEFGHIJKLMNOPQRSTUVWXYZÃ"
LowerCase == "abcdefghijklmnopqrstuvwxyzã"

CharAt(s, i) == SubSeq(s, i, i)

\* position of character c in text s, 0 when it is not there
PosIn(s, c) ==
    CHOOSE i \in 0..Len(s) :
        IF i = 0 THEN \A k \in 1..Len(s) : CharAt(s, k) # c
        ELSE CharAt(s, i) = c /\ \A k \in 1..(i - 1) : CharAt(s, k) # c

ord(c) == PosIn(CodePoints, c)

isspace(c) == c \in {" ", "\t", "\n", "\r"}

RECURSIVE lower(_)
lower(s) ==
    IF s = "" THEN ""
    ELSE LET c == CharAt(s, 1)
             k == PosIn(UpperCase, c)
         IN  (IF k = 0 THEN c ELSE CharAt(LowerCase, k)) \o lower(SubSeq(s, 2, Len(s)))

\* a < b for two str
RECURSIVE StrLess(_, _)
StrLess(a, b) ==
    IF b = "" THEN FALSE
    ELSE IF a = "" THEN TRUE
    ELSE IF CharAt(a, 1) = CharAt(b, 1)
        THEN StrLess(SubSeq(a, 2, Len(a)), SubSeq(b, 2, Len(b)))
    ELSE ord(CharAt(a, 1)) < ord(CharAt(b, 1))

\* s.split(): the runs of characters that are not white space
RECURSIVE split(_)
split(s) ==
    IF s = "" THEN <<>>
    ELSE IF isspace(CharAt(s, 1)) THEN split(SubSeq(s, 2, Len(s)))
    ELSE LET rest == [i \in 1..Len(s) |-> isspace(CharAt(s, i))]
             stop == IF \E i \in 1..Len(s) : rest[i]
                     THEN Min({i \in 1..Len(s) : rest[i]}) ELSE Len(s) + 1
         IN  <<SubSeq(s, 1, stop - 1)>> \o split(SubSeq(s, stop, Len(s)))

\* sep.join(words)
RECURSIVE join(_, _)
join(sep, words) ==
    IF words = <<>> THEN ""
    ELSE IF Len(words) = 1 THEN words[1]
    ELSE words[1] \o sep \o join(sep, Tail(words))

normalize_label(s) == IF s = "" THEN "" ELSE join(" ", split(s))

\* s.lower().endswith(".diag")
IsDiag(n) == Len(n) >= 5 /\ lower(SubSeq(n, Len(n) - 4, Len(n))) = ".diag"

----------------------------------------------------------------------------
(* The Bizagi archive: parse_bizagi_group_by_diagram                        *)
(*                                                                         *)
(* A .bpm file is a sequence of entries [name, kind, root].  kind says     *)
(* what reading the entry gives: "notzip" (zipfile.is_zipfile is false),   *)
(* "noxml" (a nested archive without Diagram.xml), "raises" (reading the   *)
(* entry, opening the nested archive or ET.fromstring raises) or "xml",    *)
(* and then root is the parsed Diagram.xml: its Pool, Activity and         *)
(* Transition elements in document order, attributes as text, an absent    *)
(* attribute as "".                                                        *)

NoRoot == [pools |-> <<>>, activities |-> <<>>, transitions |-> <<>>]

\* a dict as the sequence of its items, in insertion order
DictGet(d, key, default) ==
    LET i == FirstIndex(d, LAMBDA it : it.key = key)
    IN  IF i = 0 THEN default ELSE d[i].value

DictSet(d, key, value) ==
    LET i == FirstIndex(d, LAMBDA it : it.key = key)
    IN  IF i = 0 THEN Append(d, [key |-> key, value |-> value])
        ELSE [d EXCEPT ![i].value = value]

DictKeys(d) == {it.key : it \in Range(d)}

DictValues(d) == MapSeq(d, LAMBDA it : it.value)

DiagramLabelFirstPool(d, root) ==
    LET pool_names == MapSeq(root.pools, LAMBDA p : normalize_label(p.Name))
    IN  IF pool_names = <<>> \/ pool_names[1] = "" THEN d ELSE pool_names[1]

\* the label of a diagram read from entry d
DiagramLabel(d, root) ==
    LET pool_names == MapSeq(root.pools, LAMBDA p : normalize_label(p.Name))
        preferred == SelectSeq(pool_names, LAMBDA p : p # "" /\ lower(p) # "processo principal")
    IN  IF pool_names = <<>> THEN d
        ELSE IF preferred # <<>> THEN preferred[1]
        ELSE IF pool_names[1] # "" THEN pool_names[1] ELSE d

NodeTaskFirst(act) ==
    [id |-> act.Id, name |-> normalize_label(act.Name),
     type |-> IF act.Implementation THEN "Task" ELSE IF act.Route THEN "Route" ELSE "Activity",
     has_implementation |-> act.Implementation]

\* the node made of one Activity element
Node(act) ==
    [id |-> act.Id, name |-> normalize_label(act.Name),
     type |-> IF act.Route THEN "Route" ELSE IF act.Implementation THEN "Task" ELSE "Activity",
     has_implementation |-> act.Implementation]

\* nodes[aid] = {...} for every Activity, in document order
RECURSIVE Nodes(_, _)
Nodes(nodes, activities) ==
    IF activities = <<>> THEN nodes
    ELSE Nodes(DictSet(nodes, Head(activities).Id, Node(Head(activities))), Tail(activities))

Transitions(root) ==
    MapSeq(root.transitions, LAMBDA tr :
        [from |-> tr.From, to |-> tr.To, name |-> normalize_label(tr.Name)])

\* the position list.sort(key=label) gives an item: after the items already placed
\* whose label is not greater
RECURSIVE SortByLabel(_)
SortByLabel(items) ==
    IF items = <<>> THEN <<>>
    ELSE LET n == Len(items)
             x == items[n]
             done == SortByLabel(SubSeq(items, 1, n - 1))
             before == Cardinality({i \in DOMAIN done : ~StrLess(x[2], done[i][2])})
         IN  InsertAt(done, before + 1, x)

NoResult ==
    [raised |-> FALSE, diagrams_labels |-> <<>>, nodes_by_diag |-> <<>>,
     transitions_by_diag |-> <<>>]

FallbackForgets(acc, d) == [NoResult EXCEPT !.diagrams_labels = << <<d, d>> >>]

\* the except clause: the entry is listed under its own name
Fallback(acc, d) == [acc EXCEPT !.diagrams_labels = Append(@, <<d, d>>)]

\* the loop over the .diag entries
RECURSIVE ReadDiags(_, _)
ReadDiags(acc, diags) ==
    IF diags = <<>> THEN acc
    ELSE LET e == Head(diags)
             d == e.name
             next ==
                IF e.kind \in {"notzip", "noxml"} THEN acc
                ELSE IF e.kind = "raises" THEN Fallback(acc, d)
                ELSE [acc EXCEPT
                        !.diagrams_labels = Append(@, <<d, DiagramLabel(d, e.root)>>),
                        !.nodes_by_diag = DictSet(@, d, Nodes(<<>>, e.root.activities)),
                        !.transitions_by_diag = DictSet(@, d, Transitions(e.root))]
         IN  ReadDiags(next, Tail(diags))

parse_bizagi_group_by_diagram(bpm) ==
    LET diags == SelectSeq(bpm, LAMBDA e : IsDiag(e.name))
    IN  IF diags = <<>> THEN [NoResult EXCEPT !.raised = TRUE]
        ELSE [ReadDiags(NoResult, diags) EXCEPT !.diagrams_labels = SortByLabel(@)]

----------------------------------------------------------------------------
(* Decisions of a diagram: build_task_fields_for_diagram *)

NoNode == [id |-> "", name |-> "", type |-> "", has_implementation |-> FALSE]

OptionsFromDestinationsUnfiltered(nodes, outgoing) ==
    MapSeq(outgoing, LAMBDA t : DictGet(nodes, t.to, NoNode).name)

\* opts of a gateway whose outgoing transitions are outgoing
OptionsFromDestinations(nodes, outgoing) ==
    SelectSeq(MapSeq(outgoing, LAMBDA t : DictGet(nodes, t.to, NoNode).name),
              LAMBDA o : o # "")

GatewayOptions(nodes, outgoing) ==
    LET named == SelectSeq(MapSeq(outgoing, LAMBDA t : t.name), LAMBDA o : o # "")
        opts1 == IF named = <<>> /\ outgoing # <<>>
                 THEN OptionsFromDestinations(nodes, outgoing) ELSE named
    IN  IF opts1 = <<>> /\ Len(outgoing) = 2 THEN <<"Sim", "Não">> ELSE opts1

GatewayKind(opts) ==
    IF {lower(o) : o \in Range(opts)} \in {{"sim", "não"}, {"sim", "nao"}}
    THEN "Lista (Sim/Não)" ELSE "Lista"

CandidateIdOfGateway(src_id, gw_id) == gw_id

\* f"{src['id']}_{gw['id']}"
CandidateId(src_id, gw_id) == src_id \o "_" \o gw_id

\* the candidates one gateway gives, as items (task id, field_data), in the order of
\* its incoming transitions
GatewayFields(nodes, transitions, gw) ==
    LET incoming == SelectSeq(transitions, LAMBDA t : t.to = gw.id)
        outgoing == SelectSeq(transitions, LAMBDA t : t.from = gw.id)
        opts == GatewayOptions(nodes, outgoing)
        qualifying == SelectSeq(incoming, LAMBDA inc :
            LET src == DictGet(nodes, inc.from, NoNode)
            IN  src # NoNode /\ src.type = "Task" /\ src.has_implementation)
    IN  MapSeq(qualifying, LAMBDA inc :
            [key |-> inc.from,
             value |-> [id |-> CandidateId(inc.from, gw.id), campo |-> normalize_label(gw.name),
                        tipo |-> GatewayKind(opts), opcoes |-> opts]])

build_task_fields_for_diagram(nodes, transitions) ==
    LET values == DictValues(nodes)
        tasks == SelectSeq(values, LAMBDA n : n.type = "Task" /\ n.has_implementation)
        gateways == SelectSeq(values, LAMBDA n : n.type = "Route")
        made == Flatten(MapSeq(gateways, LAMBDA gw : GatewayFields(nodes, transitions, gw)))
    IN  [tasks |-> tasks,
         task_fields |->
            MapSeq(tasks, LAMBDA t :
                [key |-> t.id,
                 value |-> MapSeq(SelectSeq(made, LAMBDA it : it.key = t.id),
                                  LAMBDA it : it.value)])]

----------------------------------------------------------------------------
(* The importer window: BPMNImporterWindow *)

\* the window before a file is chosen; bpm is the file read by run_import_flow
NoWindow ==
    [screen |-> "welcome", bpm |-> <<>>, diagram_list |-> <<>>, diagrams_data |-> <<>>,
     current_diagram_id |-> None, current_diagram_label |-> "",
     current_tasks |-> <<>>, current_fields_by_task |-> <<>>]

update_tree_previewByPosition(w, selected_label, force_reload) ==
    LET i == FirstIndex(w.diagram_list, LAMBDA it : it[2] = selected_label)
        diag_id == IF i = 0 THEN None ELSE w.diagram_list[i][1]
    IN  IF diag_id = None \/ diag_id = ""
        THEN [w EXCEPT !.current_diagram_id = None,
                       !.current_diagram_label = selected_label,
                       !.current_tasks = <<>>,
                       !.current_fields_by_task = <<>>]
        ELSE LET needs_reload == force_reload \/ diag_id # w.current_diagram_id
                 data == DictGet(w.diagrams_data, diag_id, [nodes |-> <<>>, transitions |-> <<>>])
                 r == build_task_fields_for_diagram(data.nodes, data.transitions)
                 w1 == [w EXCEPT !.current_diagram_id = diag_id,
                                 !.current_diagram_label = selected_label]
             IN  IF needs_reload
                 THEN [w1 EXCEPT !.current_tasks = IF i = 1 THEN r.tasks
                                                  ELSE [k \in DOMAIN r.tasks |->
                                                           r.tasks[Len(r.tasks) + 1 - k]],
                                 !.current_fields_by_task = r.task_fields]
                 ELSE w1

update_tree_preview(w, selected_label, force_reload) ==
    LET i == FirstIndex(w.diagram_list, LAMBDA it : it[2] = selected_label)
        diag_id == IF i = 0 THEN None ELSE w.diagram_list[i][1]
    IN  IF diag_id = None \/ diag_id = ""
        THEN [w EXCEPT !.current_diagram_id = None,
                       !.current_diagram_label = selected_label,
                       !.current_tasks = <<>>,
                       !.current_fields_by_task = <<>>]
        ELSE LET needs_reload == force_reload \/ diag_id # w.current_diagram_id
                 data == DictGet(w.diagrams_data, diag_id, [nodes |-> <<>>, transitions |-> <<>>])
                 r == build_task_fields_for_diagram(data.nodes, data.transitions)
                 w1 == [w EXCEPT !.current_diagram_id = diag_id,
                                 !.current_diagram_label = selected_label]
             IN  IF needs_reload
                 THEN [w1 EXCEPT !.current_tasks = r.tasks,
                                 !.current_fields_by_task = r.task_fields]
                 ELSE w1

\* diagrams_data = {diag_id: {...} for diag_id, _ in diags}
RECURSIVE DiagramsData(_, _, _)
DiagramsData(acc, diags, r) ==
    IF diags = <<>> THEN acc
    ELSE DiagramsData(
            DictSet(acc, Head(diags)[1],
                    [nodes |-> DictGet(r.nodes_by_diag, Head(diags)[1], <<>>),
                     transitions |-> DictGet(r.transitions_by_diag, Head(diags)[1], <<>>)]),
            Tail(diags), r)

\* the window after run_import_flow has read the file bpm
ImportFlow(bpm) ==
    LET r == parse_bizagi_group_by_diagram(bpm)
        w0 == [NoWindow EXCEPT !.bpm = bpm]
    IN  IF r.raised THEN [w0 EXCEPT !.screen = "error"]
        ELSE IF r.diagrams_labels = <<>> THEN [w0 EXCEPT !.screen = "warning"]
        ELSE update_tree_preview(
                [w0 EXCEPT !.screen = "importer",
                           !.diagram_list = r.diagrams_labels,
                           !.diagrams_data = DiagramsData(<<>>, r.diagrams_labels, r)],
                r.diagrams_labels[1][2], FALSE)

\* "Selecionar ficheiro": the file dialog gives the file bpm
run_import_flow(bpm) ==
    /\ importer.screen = "welcome"
    /\ importer' = ImportFlow(bpm)
    /\ UNCHANGED << project, current_task_id, selected_field_ids, _undo_stack, _redo_stack,
                    _clipboard, heap, cache, name_entry, last >>

\* a diagram is chosen in the combo box of the window
diag_combobox_command(value) ==
    /\ importer.screen = "importer"
    /\ importer' = update_tree_preview(importer, value, TRUE)
    /\ UNCHANGED << project, current_task_id, selected_field_ids, _undo_stack, _redo_stack,
                    _clipboard, heap, cache, name_entry, last >>

----------------------------------------------------------------------------
(* The .bpm files on disk *)

MaxEntries == 2   \* how many entries a .bpm file has

Activity(id, name, route, implementation) ==
    [Id |-> id, Name |-> name, Route |-> route, Implementation |-> implementation]

Transition(from, to, name) == [From |-> from, To |-> to, Name |-> name]

\* two tasks before a decision whose ways out are named
Aprovacao ==
    [activities |-> << Activity("A", "Analisar", FALSE, TRUE),
                       Activity("B", "Rever", FALSE, TRUE),
                       Activity("G", " Aprovado\n ", TRUE, FALSE),
                       Activity("C", "Pagar", FALSE, TRUE),
                       Activity("D", "Arquivar", FALSE, FALSE) >>,
     transitions |-> << Transition("A", "G", ""), Transition("B", "G", ""),
                        Transition("G", "C", "Aprovado"), Transition("G", "D", "Reprovado") >>]

MaxOut == 3   \* how many ways out the decision of a diagram has

\* what the ways out of a decision are called
OptionNames == {"", "Sim", "SIM", "Não", "nao", "Talvez"}

\* a decision G reached from the tasks T and B, a manual activity X, a gateway H that
\* carries an implementation and a node Z that is not in the diagram.  The ways out of
\* G have the names given; the first leads to E, named or not, the second to a task
\* without name, the others to nodes that are not in the diagram.  H has one way out,
\* without name, to G.
Decisao(names, named) ==
    [activities |-> << Activity("T", "Triar", FALSE, TRUE),
                       Activity("X", "Manual", FALSE, FALSE),
                       Activity("H", "Sub", TRUE, TRUE),
                       Activity("B", "Rever", FALSE, TRUE),
                       Activity("G", " Seguir \r\n adiante ", TRUE, FALSE),
                       Activity("E", IF named THEN "Fim" ELSE "", FALSE, FALSE),
                       Activity("F", "", FALSE, TRUE) >>,
     transitions |-> << Transition("T", "G", ""), Transition("X", "G", ""),
                        Transition("H", "G", ""), Transition("Z", "G", ""),
                        Transition("T", "H", "ir"), Transition("B", "G", " ") >>
                     \o [i \in 1..Len(names) |->
                            Transition("G", IF i = 1 THEN "E" ELSE IF i = 2 THEN "F" ELSE "U",
                                       names[i])]]

Pool(name) == [Name |-> name]

PoolLists ==
    { <<>>,
      << Pool("Processo Principal"), Pool(" Compras\r\n Diretas ") >>,
      << Pool("PROCESSO  principal") >>,
      << Pool(""), Pool("Processo principal") >>,
      << Pool("Vendas"), Pool("Compras") >> }

Roots ==
    {[pools |-> p, activities |-> Aprovacao.activities,
      transitions |-> Aprovacao.transitions] : p \in PoolLists}

EntryNames == {"a.diag", "b.diag", "C.DIAG", "leia.txt"}

Entries ==
    {[name |-> n, kind |-> k, root |-> NoRoot] :
        n \in EntryNames, k \in {"notzip", "noxml", "raises"}}
    \cup {[name |-> n, kind |-> "xml", root |-> r] : n \in EntryNames, r \in Roots}

\* the files: up to MaxEntries entries, no two of the same name
Archives ==
    UNION {{bpm \in [1..n -> Entries] :
                \A i, j \in 1..n : bpm[i].name = bpm[j].name => i = j} : n \in 0..MaxEntries}

\* the files of one diagram with one decision of up to MaxOut ways out
Diagramas ==
    {<< [name |-> "a.diag", kind |-> "xml",
         root |-> [pools |-> <<>>, activities |-> Decisao(names, named).activities,
                   transitions |-> Decisao(names, named).transitions]] >> :
        names \in UNION {[1..n -> OptionNames] : n \in 0..MaxOut}, named \in BOOLEAN}

----------------------------------------------------------------------------
(* The application *)

----------------------------------------------------------------------------
(* Flow validator: the consistency scan *)

\* s.strip()
RECURSIVE strip(_)
strip(s) ==
    IF s = "" THEN ""
    ELSE IF isspace(CharAt(s, 1)) THEN strip(SubSeq(s, 2, Len(s)))
    ELSE IF isspace(CharAt(s, Len(s))) THEN strip(SubSeq(s, 1, Len(s) - 1))
    ELSE s

\* the warnings of one field, its references looked up among the fields of its task
FieldIssuesInTask(p, task, field, names_before) ==
    LET all_fields == {f.id : f \in Range(task.fields)}
        set == field.origin_field # None /\ field.origin_field # ""
        issue(code) == <<[task |-> task.id, field |-> field.id, code |-> code]>>
        when(b, code) == IF b THEN issue(code) ELSE <<>>
    IN  when(~field.required /\ ~field.readonly, "OPT_EDIT")
        \o when(field.required /\ field.readonly /\ ~set, "REQ_RO")
        \o when(field.ftype \in LIST_FIELD_TYPES /\ strip(field.options) = "" /\ ~set,
                "LIST_NO_OPTS")
        \o when(field.ftype = "Informativo" /\ strip(field.options) = "", "INFO_NO_TEXT")
        \o when(lower(strip(field.name)) = "novo campo" \/ strip(field.name) = "", "NO_NAME")
        \o when(field.name \in names_before, "DUP_NAME")
        \o when(set /\ field.origin_field \notin all_fields, "BAD_ORIGIN")
        \o when(\E i \in DOMAIN field.cond : field.cond[i].src_field \notin all_fields,
                "BAD_RULE")

\* the warnings of one field, in the order of the tests; names_before are the names
\* of the fields of the task met before it.  ANX_NO_TYPE reads the attribute note,
\* which is not modelled.
FieldIssues(p, task, field, names_before) ==
    LET all_fields == FieldIds(p)
        set == field.origin_field # None /\ field.origin_field # ""
        issue(code) == <<[task |-> task.id, field |-> field.id, code |-> code]>>
        when(b, code) == IF b THEN issue(code) ELSE <<>>
    IN  when(~field.required /\ ~field.readonly, "OPT_EDIT")
        \o when(field.required /\ field.readonly /\ ~set, "REQ_RO")
        \o when(field.ftype \in LIST_FIELD_TYPES /\ strip(field.options) = "" /\ ~set,
                "LIST_NO_OPTS")
        \o when(field.ftype = "Informativo" /\ strip(field.options) = "", "INFO_NO_TEXT")
        \o when(lower(strip(field.name)) = "novo campo" \/ strip(field.name) = "", "NO_NAME")
        \o when(field.name \in names_before, "DUP_NAME")
        \o when(set /\ field.origin_field \notin all_fields, "BAD_ORIGIN")
        \o when(\E i \in DOMAIN field.cond : field.cond[i].src_field \notin all_fields,
                "BAD_RULE")

\* _run_validation(): the list of warnings of project p
_run_validation(p) ==
    LET of_task(task) ==
            Flatten([j \in DOMAIN task.fields |->
                FieldIssues(p, task, task.fields[j],
                            {task.fields[k].name : k \in 1..(j - 1)})])
        has_obj_field == \E f \in AllFields(p) : f.ftype = "Objeto"
        pseudo_task == IF p.tasks # <<>> THEN p.tasks[1].id ELSE ""
    IN  Flatten(MapSeq(p.tasks, of_task))
        \o (IF has_obj_field /\ p.object_type = ""
            THEN <<[task |-> pseudo_task, field |-> "", code |-> "OBJ_NO_TYPE"]>>
            ELSE <<>>)

\* the scan repairing what it finds: the origins that name no field are cleared
open_flow_validatorRepairing ==
    /\ name_entry = NoEdit
    /\ Done("open_flow_validator", Range(_run_validation(project)), Pre,
            [project EXCEPT !.tasks = MapFields(@, LAMBDA f :
                IF f.id \in BadOrigin(project)
                THEN [f EXCEPT !.origin_field = None, !.origin_task = None] ELSE f)],
            current_task_id, selected_field_ids, _undo_stack, _redo_stack, _clipboard,
            heap, cache, name_entry)

\* "Validar fluxo": the scan runs and its warnings are listed
open_flow_validator ==
    /\ name_entry = NoEdit
    /\ Done("open_flow_validator", Range(_run_validation(project)), Pre, project,
            current_task_id, selected_field_ids, _undo_stack, _redo_stack, _clipboard,
            heap, cache, name_entry)

Constructed ==
    /\ project = ProjectModel
    /\ current_task_id = None
    /\ selected_field_ids = {}
    /\ _undo_stack = <<>>
    /\ _redo_stack = <<>>
    /\ _clipboard = NoClip
    /\ heap = [r \in {} |-> ObjectFieldDef("", 0)]
    /\ cache = _rebuild_metadata_cache(ProjectModel)
    /\ name_entry = NoEdit
    /\ importer = NoWindow

\* last remembers the handler that ran and what it was given
Init == Constructed /\ last = [op |-> "__init__", arg |-> {}, pre |-> NoPre, keep |-> "op"]

\* the same start, remembering also the state before each handler
InitRecording ==
    Constructed /\ last = [op |-> "__init__", arg |-> {}, pre |-> NoPre, keep |-> "pre"]

\* the same start, remembering the state before the first of the handlers of a run:
\* the same handler on the same argument, several times in a row
InitRun ==
    Constructed /\ last = [op |-> "__init__", arg |-> {}, pre |-> NoPre, keep |-> "run"]

\* the same start, remembering nothing of the handlers that ran
InitQuiet ==
    Constructed /\ last = [op |-> "__init__", arg |-> {}, pre |-> NoPre, keep |-> "nothing"]

\* the histories explored are short: a handler that pushes runs while there is room
Room == Len(_undo_stack) < MaxHist

RoomDeep == Len(_undo_stack) < MaxDeep

\* a name given, a link, a second link and its clearing are four snapshots
RoomChain == Len(_undo_stack) < MaxChain

\* a file is opened in the application just started
OpenFile(files) == last.op = "__init__" /\ \E data \in files : open_project(data)

History == undo_action \/ redo_action

Navigate ==
    \/ \E fid \in FieldIds(project), val \in BOOLEAN : _toggle_select(fid, val)
    \/ \E i \in DOMAIN project.tasks : _on_task_change(i)

CopyRow == \E fid \in FieldIds(project) : _copy_single_field(fid)

\* the field combo box lists the fields of the task chosen, and takes typed text too
SetOrigin ==
    \E fid \in FieldIds(project), t \in Range(project.tasks) :
        \E sel_f \in {f.name : f \in Range(t.fields)} \cup FieldNames :
            open_origin_picker_ok(fid, t.name, sel_f)

ClearOrigin == \E fid \in FieldIds(project) : open_origin_picker_clear(fid)

AddRule ==
    \E fid \in FieldIds(project), f \in AllFields(project), val \in RuleValues :
        add_cond(fid, f.name, val)

RemoveRule == \E fid \in FieldIds(project), idx \in 1..2 : remove_cond(fid, idx)

ChangeType(types) ==
    \E fid \in FieldIds(project), new_type \in types, name \in ObjectNames \cup {""} :
        _on_change_type(fid, new_type, name)

TasksDialog ==
    \/ \E name \in TaskNames : add_task_from_entry(name)
    \/ \E tid \in TaskIds(project), name \in TaskNames : rename_task(tid, name)
    \/ \E tid \in TaskIds(project) : delete_task(tid)
    \/ \E tid \in TaskIds(project), delta \in {-1, 1} : move_task(tid, delta)

RowMenu ==
    \/ \E fid \in FieldIds(project) : _duplicate_field(fid)
    \/ \E fid \in FieldIds(project), delta \in {-1, 1} : _move_field(fid, delta)
    \/ \E fid \in FieldIds(project) : _move_field_to_top(fid)
    \/ \E fid \in FieldIds(project) : _move_field_to_end(fid)

RowFlags ==
    \/ \E fid \in FieldIds(project), val \in BOOLEAN : _set_readonly(fid, val)
    \/ \E fid \in FieldIds(project), val \in BOOLEAN : set_required(fid, val)
    \/ \E fid \in FieldIds(project), text \in OptionTexts : set_options(fid, text)

SchemaEditor ==
    \E dialog_name \in ObjectNames \cup {""} :
        \/ \E name \in SchemaNames : schema_add(dialog_name, name)
        \/ \E i \in 1..MaxObj, name \in SchemaNames : schema_edit(dialog_name, i, name)
        \/ \E i \in 1..MaxObj : schema_remove(dialog_name, i)

Import ==
    \E label \in {"", "Diagrama"} :
        \E imported_data \in {Simples(label), Decisoes(label)} :
            open_bpmn_importer(imported_data)

\* every handler, on every file
Next ==
    \/ OpenFile({Triagem, Vinculo, Orfao, Contrato, Esquema})
    \/ History
    \/ Navigate
    \/ CopyRow
    \/ _copy_selected_fields
    \/ \E fid \in FieldIds(project), text \in FieldNames : type_name(fid, text)
    \/ \E data \in {Triagem, Vinculo, Contrato, Esquema} : apply_sel([project |-> data])
    \/ Room /\ \E fid \in FieldIds(project) : _on_field_name_changed(fid)
    \/ Room /\ _show_context_menu
    \/ Room /\ TasksDialog
    \/ Room /\ FewNew /\ _add_field
    \/ Room /\ \E fid \in FieldIds(project) : _delete_field(fid)
    \/ Room /\ delete_selected_fields
    \/ Room /\ \E fid \in FieldIds(project) : _cut_single_field(fid)
    \/ Room /\ FewNew /\ \E choice \in {"copy", "origin"} : _paste_fields(choice)
    \/ Room /\ RowMenu
    \/ Room /\ ChangeType(TYPE_VALUES \ {"Anexo"})
    \/ Room /\ RowFlags
    \/ Room /\ SetOrigin
    \/ Room /\ ClearOrigin
    \/ open_flow_validator
    \/ Room /\ \E fid \in FieldIds(project) : validator_clear_origin(fid)
    \/ Room /\ AddRule
    \/ Room /\ RemoveRule
    \/ Room /\ \E name \in ObjectNames : open_flow_object_type_dialog(name)
    \/ Room /\ SchemaEditor
    \/ Room /\ \E new \in FlowNames : rename_flow(new)
    \/ Room /\ new_flow_blank
    \/ Room /\ FewNew /\ Import

Spec == Init /\ [][Next]_vars

----------------------------------------------------------------------------
(* Links and deletions: the file Vinculo, one snapshot of history *)

NextRefs ==
    \/ OpenFile({Vinculo})
    \/ History
    \/ Navigate
    \/ CopyRow
    \/ _copy_selected_fields
    \/ Room /\ FewNew /\ _add_field
    \/ Room /\ \E fid \in FieldIds(project) : _delete_field(fid)
    \/ Room /\ delete_selected_fields
    \/ Room /\ \E tid \in TaskIds(project) : delete_task(tid)
    \/ Room /\ FewNew /\ \E fid \in FieldIds(project) : _duplicate_field(fid)
    \/ Room /\ \E fid \in FieldIds(project) : _cut_single_field(fid)
    \/ Room /\ FewNew /\ \E choice \in {"copy", "origin"} : _paste_fields(choice)
    \/ Room /\ SetOrigin
    \/ Room /\ ClearOrigin

SpecRefs == InitQuiet /\ [][NextRefs]_vars

----------------------------------------------------------------------------
(* Visibility rules: the file Triagem, two snapshots of history *)

NextRules ==
    \/ OpenFile({Triagem})
    \/ History
    \/ CopyRow
    \/ RoomDeep /\ AddRule
    \/ RoomDeep /\ RemoveRule
    \/ RoomDeep /\ \E fid \in FieldIds(project) : _delete_field(fid)
    \/ RoomDeep /\ \E tid \in TaskIds(project) : delete_task(tid)
    \/ RoomDeep /\ FewNew /\ \E fid \in FieldIds(project) : _duplicate_field(fid)
    \/ RoomDeep /\ \E fid \in FieldIds(project) : _cut_single_field(fid)
    \/ RoomDeep /\ FewNew /\ _paste_fields("copy")

SpecRules == Init /\ [][NextRules]_vars

\* the rules of p whose src_field is no field of p, with the field that holds them
DanglingRules(p) ==
    UNION {{<<f.id, c.src_field>> :
               c \in {x \in Range(f.cond) : x.src_field \notin FieldIds(p)}} :
           f \in AllFields(p)}

\* C2 as stated: in every reachable state every rule's src_field is a field of the project.
RulesResolve == DanglingRules(project) = {}

\* C2, as the code has it: a step leaves a rule without its source field only when it
\* pastes a copy whose source was deleted after the copy was taken (the reference is
\* kept on purpose, with a warning), duplicates such a field, or restores a snapshot;
\* deleting a field or a task, and adding a rule, never does.
RulesResolveUnlessPasted ==
    [][DanglingRules(project') \ DanglingRules(project) # {}
        => last'.op \in {"paste_as_copy", "_duplicate_field", "undo_action", "redo_action"}]_vars

\* a has just been deleted and the rule of b on a went with it
RuleSourceDeleted ==
    /\ last.op \in {"_delete_field", "_cut_single_field"}
    /\ "a" \in last.arg
    /\ \E f \in AllFields(project) : f.id = "b" /\ f.cond = <<>>

\* C17: no field holds the same rule twice
NoEqualRules ==
    \A f \in AllFields(project) :
        \A i, j \in DOMAIN f.cond : i # j => f.cond[i] # f.cond[j]

\* the rule b has was added again and refused: nothing was pushed
RuleRefused ==
    /\ last.op = "add_cond"
    /\ last.arg = {"b"}
    /\ _undo_stack = <<>>
    /\ Len(FieldById(project, "b").cond) = 1

----------------------------------------------------------------------------
(* Deletions: the file Vinculo, rows selected in one task and deleted in another *)

NextDelete ==
    \/ OpenFile({Vinculo})
    \/ History
    \/ Navigate
    \/ Room /\ \E fid \in FieldIds(project) : _delete_field(fid)
    \/ Room /\ delete_selected_fields
    \/ Room /\ \E tid \in TaskIds(project) : delete_task(tid)

SpecDelete == Init /\ [][NextDelete]_vars

DeleteOps == {"_delete_field", "delete_selected_fields"}

\* C3: after _delete_field or delete_selected_fields deleted F, F is not in the project,
\* no rule and no origin refers to F, and every field whose name was locked by its
\* origin F is unlocked and has its name_before_origin back.
DeletedFieldIsGone ==
    [][last'.op \in DeleteOps =>
        \A F \in last'.arg :
            /\ F \notin FieldIds(project')
            /\ \A g \in AllFields(project') :
                  /\ g.origin_field # F
                  /\ \A c \in Range(g.cond) : c.src_field # F
            /\ \A g \in AllFields(project) :
                  (g.origin_field = F /\ g.name_lock_reason = "origem"
                      /\ g.id \in FieldIds(project'))
                  => /\ ~FieldById(project', g.id).name_locked
                     /\ FieldById(project', g.id).name = g.name_before_origin]_vars

----------------------------------------------------------------------------
(* Undo and redo: the files Triagem and Contrato, the state before each handler kept *)

NextUndo ==
    \/ OpenFile({Triagem, Contrato})
    \/ History
    \/ \E fid \in FieldIds(project), text \in FieldNames : type_name(fid, text)
    \/ \E data \in {Triagem} : apply_sel([project |-> data])
    \/ Room /\ \E fid \in FieldIds(project) : _on_field_name_changed(fid)
    \/ Room /\ ChangeType({"Numérico"})
    \/ Room /\ FewNew /\ \E fid \in FieldIds(project) : _duplicate_field(fid)
    \/ Room /\ FewNew /\ _add_field
    \/ Room /\ \E new \in FlowNames : rename_flow(new)

SpecUndo == InitRecording /\ [][NextUndo]_vars

\* the handlers of the mutating operations
MutatingOps ==
    {"_add_field", "_delete_field", "_on_field_name_changed", "_on_change_type",
     "set_origin", "clear_origin", "add_cond", "remove_cond", "_duplicate_field",
     "paste_as_copy", "paste_with_origin", "_move_field", "_move_field_to_top",
     "_move_field_to_end", "add_task", "rename_task", "delete_task", "move_task",
     "set_object_type", "open_bpmn_importer"}

\* C4: a mutating operation followed by one undo_action leaves the project it started from.
UndoRestores ==
    [][(last.op \in MutatingOps /\ last'.op = "undo_action")
        => View(project', heap') = last.pre.project]_vars

\* C5: undo_action followed at once by redo_action leaves the project and the lengths
\* of both stacks as they were before the undo.
UndoRedoRestores ==
    [][(last.op = "undo_action" /\ last'.op = "redo_action")
        => /\ View(project', heap') = last.pre.project
           /\ Len(_undo_stack') = last.pre.ulen
           /\ Len(_redo_stack') = last.pre.rlen]_vars

\* C6: a handler that changes the project has cleared the redo stack and pushed the
\* project as it was before the handler's first change.
ChangesArePushed ==
    [][(View(project', heap') # View(project, heap)
            /\ last'.op \notin {"undo_action", "redo_action", "open_project"})
        => /\ _redo_stack' = <<>>
           /\ _undo_stack' # <<>>
           /\ Content(_undo_stack'[Len(_undo_stack')], heap').project
                 = View(project, heap)]_vars

----------------------------------------------------------------------------
(* The cap of the stacks: the flow is renamed again and again *)

NextCap ==
    \/ undo_action
    \/ redo_action
    \/ \E new \in FlowNames : rename_flow(new)

SpecCap == Init /\ [][NextCap]_vars

\* C7: neither stack ever holds more than _UNDO_MAX snapshots, and a push onto
\* a full undo stack drops the oldest snapshot and keeps the others in order
StacksCapped ==
    /\ [](Len(_undo_stack) <= _UNDO_MAX /\ Len(_redo_stack) <= 50)
    /\ [][(last'.op = "rename_flow" /\ Len(_undo_stack) = _UNDO_MAX)
            => /\ Len(_undo_stack') = _UNDO_MAX
               /\ SubSeq(_undo_stack', 1, _UNDO_MAX - 1) = Tail(_undo_stack)
               /\ _undo_stack'[_UNDO_MAX].project.flow_name = project.flow_name]_vars

\* the undo stack is full and its oldest snapshot, of the flow as constructed, is gone
OldestDropped ==
    /\ last.op = "rename_flow"
    /\ Len(_undo_stack) = _UNDO_MAX
    /\ \A i \in DOMAIN _undo_stack : _undo_stack[i].project.flow_name # "Novo fluxo"

----------------------------------------------------------------------------
(* The object schema: the file Esquema, two snapshots of history *)

NextSchema ==
    \/ OpenFile({Esquema})
    \/ undo_action
    \/ redo_action
    \/ RoomDeep /\ \E name \in SchemaNames : schema_add("", name)
    \/ RoomDeep /\ \E i \in 1..MaxObj, name \in SchemaNames : schema_edit("", i, name)
    \/ RoomDeep /\ \E i \in 1..MaxObj : schema_remove("", i)
    \/ RoomDeep /\ \E new \in FlowNames : rename_flow(new)

SpecSchema == Init /\ [][NextSchema]_vars

\* C8: a snapshot that stays on the undo or the redo stack over a step says
\* after the step what it said before it
SnapshotsImmutable ==
    [][/\ \A i \in DOMAIN _undo_stack \cap DOMAIN _undo_stack' :
              Content(_undo_stack'[i], heap') = Content(_undo_stack[i], heap)
       /\ \A i \in DOMAIN _redo_stack \cap DOMAIN _redo_stack' :
              Content(_redo_stack'[i], heap') = Content(_redo_stack[i], heap)]_vars

----------------------------------------------------------------------------
(* Objeto fields: the files Contrato and Triagem, one snapshot of history *)

NextObj ==
    \/ OpenFile({Contrato, Triagem})
    \/ undo_action
    \/ redo_action
    \/ CopyRow
    \/ Room /\ ChangeType({"Objeto", "Texto"})
    \/ Room /\ FewNew /\ \E fid \in FieldIds(project) : _duplicate_field(fid)
    \/ Room /\ FewNew /\ \E choice \in {"copy", "origin"} : _paste_fields(choice)
    \/ Room /\ SetOrigin
    \/ Room /\ \E name \in ObjectNames : open_flow_object_type_dialog(name)

SpecObj == Init /\ [][NextObj]_vars

\* C9: no task holds two fields of type Objeto
AtMostOneObjeto ==
    \A t \in Range(project.tasks) :
        Cardinality({f \in Range(t.fields) : f.ftype = "Objeto"}) <= 1

\* C10: every Objeto field is named after the object type of the project and
\* its name is locked for the reason "objeto"
ObjetoNamedAndLocked ==
    \A f \in AllFields(project) :
        f.ftype = "Objeto" =>
            /\ f.name = project.object_type
            /\ f.name_locked
            /\ f.name_lock_reason = "objeto"

\* C11: picking Objeto for a field of another type leaves the type as it was when
\* the active task holds another Objeto field; otherwise, when the field has no
\* origin and the object type has a name or the user gives one, the field becomes
\* Objeto, name_before_obj keeps its name, and it is named after the object type
\* and locked for the reason "objeto"
ObjetoChangeSettled ==
    [][\A fid \in FieldIds(project), dialog_name \in ObjectNames \cup {""} :
          (/\ _on_change_type(fid, "Objeto", dialog_name)
           /\ FieldById(project, fid).ftype # "Objeto")
          => LET f == FieldById(project, fid)
                 g == FieldById(project', fid)
                 t == project.tasks[OwnerIndex(project.tasks, fid)]
             IN  IF \E x \in Range(t.fields) : x.ftype = "Objeto" /\ x.id # fid
                 THEN g.ftype = f.ftype /\ g.name_lock_reason = f.name_lock_reason
                 ELSE (/\ f.origin_task = None
                       /\ f.origin_field = None
                       /\ (project.object_type # "" \/ dialog_name # ""))
                      => /\ g.ftype = "Objeto"
                         /\ g.name_before_obj = f.name
                         /\ project'.object_type # ""
                         /\ g.name = project'.object_type
                         /\ g.name_locked
                         /\ g.name_lock_reason = "objeto"]_vars

\* field a of Triagem has become the Objeto field, the object type named in the dialog
ObjetoChosen ==
    /\ last.op = "_on_change_type"
    /\ project.object_type = "Doc"
    /\ \E f \in AllFields(project) :
          /\ f.id = "a"
          /\ f.ftype = "Objeto"
          /\ f.name = "Doc"
          /\ f.name_before_obj = "A"
          /\ f.name_lock_reason = "objeto"

\* C13: no field is of type Objeto and has an origin
ObjetoHasNoOrigin ==
    \A f \in AllFields(project) :
        f.ftype = "Objeto" => f.origin_task = None /\ f.origin_field = None

----------------------------------------------------------------------------
(* The lock of a linked name: the files Triagem, Vinculo and Orfao *)

NextLock ==
    \/ OpenFile({Triagem, Vinculo, Orfao})
    \/ undo_action
    \/ redo_action
    \/ \E i \in DOMAIN project.tasks : _on_task_change(i)
    \/ Room /\ SetOrigin
    \/ Room /\ ClearOrigin
    \/ Room /\ \E fid \in FieldIds(project) : validator_clear_origin(fid)
    \/ Room /\ \E fid \in FieldIds(project) : _delete_field(fid)
    \/ Room /\ \E tid \in TaskIds(project) : delete_task(tid)
    \/ Room /\ FewNew /\ \E fid \in FieldIds(project) : _duplicate_field(fid)

SpecLock == Init /\ [][NextLock]_vars

\* C14: the name of a field is locked for the reason "origem" exactly when the
\* field has an origin
LockedWhileLinked ==
    \A f \in AllFields(project) :
        f.name_lock_reason = "origem" <=> f.origin_field # None

\* C15: after OK in the origin picker of f with an origin o that is found, f has
\* the id of o and of the task of o as origin, the name, type and options of o,
\* and its name is locked for the reason "origem"
OriginLinked ==
    [][\A fid \in FieldIds(project), t \in Range(project.tasks) :
          \A o \in Range(t.fields) :
              (/\ open_origin_picker_ok(fid, t.name, o.name)
               /\ t = project.tasks[FirstIndex(project.tasks, LAMBDA x : x.name = t.name)]
               /\ o = t.fields[FirstIndex(t.fields, LAMBDA x : x.name = o.name)])
              => LET g == FieldById(project', fid)
                 IN  /\ g.origin_field = o.id
                     /\ g.origin_task = t.id
                     /\ g.name = o.name
                     /\ g.ftype = o.ftype
                     /\ g.options = o.options
                     /\ g.name_locked
                     /\ g.name_lock_reason = "origem"]_vars

\* the text field b of Triagem has just been linked to the list a
OriginChosen ==
    /\ last.op = "set_origin"
    /\ \E f \in AllFields(project) :
          /\ f.id = "b"
          /\ f.origin_field = "a"
          /\ f.origin_task = "t1"
          /\ f.ftype = "Lista"
          /\ f.name_lock_reason = "origem"

----------------------------------------------------------------------------
(* Link and unlink: the file Triagem, a field renamed first, four snapshots *)

NextOrigin ==
    \/ OpenFile({Triagem})
    \/ \E fid \in FieldIds(project), text \in FieldNames \cup {""} : type_name(fid, text)
    \/ RoomChain /\ \E fid \in FieldIds(project) : _on_field_name_changed(fid)
    \/ RoomChain /\ name_entry = NoEdit /\ SetOrigin
    \/ RoomChain /\ name_entry = NoEdit /\ ClearOrigin

SpecOrigin == InitRun /\ [][NextOrigin]_vars

\* C16: when the origin of a field that was unlocked is set, once or several times
\* in a row, and then cleared, the field has the name it had before the first link,
\* no origin, and its name is not locked
ClearRestoresName ==
    [][(/\ last.op = "set_origin"
        /\ last'.op = "clear_origin"
        /\ last'.arg = last.arg)
       => \A fid \in last.arg :
              LET f0 == FieldById(last.pre.project, fid)
                  g == FieldById(project', fid)
              IN  (/\ ~f0.name_locked
                   /\ f0.name_lock_reason = ""
                   /\ f0.origin_task = None
                   /\ f0.origin_field = None)
                  => /\ g.name = f0.name
                     /\ g.origin_task = None
                     /\ g.origin_field = None
                     /\ ~g.name_locked]_vars

----------------------------------------------------------------------------
(* A task deleted: the file Vinculo, a field renamed and linked first *)

NextTask ==
    \/ OpenFile({Vinculo})
    \/ \E i \in DOMAIN project.tasks : _on_task_change(i)
    \/ \E fid \in FieldIds(project), text \in FieldNames \cup {""} : type_name(fid, text)
    \/ RoomChain /\ \E fid \in FieldIds(project) : _on_field_name_changed(fid)
    \/ RoomChain /\ name_entry = NoEdit /\ SetOrigin
    \/ RoomChain /\ name_entry = NoEdit /\ ClearOrigin
    \/ RoomChain /\ \E tid \in TaskIds(project) : delete_task(tid)

SpecTask == Init /\ [][NextTask]_vars

\* C18: after delete_task the task and its fields are gone, no rule and no origin
\* names a field the task had, and every field whose name was locked by such an
\* origin is unlocked and has the name it had before the link
TaskDeletedClean ==
    [][\A tid \in TaskIds(project) :
          delete_task(tid)
          => LET T == project.tasks[TaskIndex(project.tasks, tid)]
                 gone == {f.id : f \in Range(T.fields)}
             IN  /\ tid \notin TaskIds(project')
                 /\ gone \cap FieldIds(project') = {}
                 /\ \A g \in AllFields(project') :
                       /\ g.origin_field \notin gone
                       /\ \A c \in Range(g.cond) : c.src_field \notin gone
                 /\ \A f \in AllFields(project) :
                       (/\ f.id \notin gone
                        /\ f.origin_field \in gone
                        /\ f.name_lock_reason = "origem")
                       => LET g == FieldById(project', f.id)
                          IN  /\ ~g.name_locked
                              /\ g.name_lock_reason = ""
                              /\ g.name = f.name_before_origin]_vars

----------------------------------------------------------------------------
(* Identifiers: the file Triagem, two snapshots of history *)

NextIds ==
    \/ OpenFile({Triagem})
    \/ undo_action
    \/ redo_action
    \/ _copy_single_field("b")
    \/ RoomDeep /\ _add_field
    \/ RoomDeep /\ \E fid \in FieldIds(project) : _duplicate_field(fid)
    \/ RoomDeep /\ \E choice \in {"copy", "origin"} : _paste_fields(choice)
    \/ RoomDeep /\ open_bpmn_importer(Decisoes(""))
    \/ Room /\ \E fid \in FieldIds(project) : _move_field(fid, 1)
    \/ Room /\ ChangeType({"Numérico"})
    \/ Room /\ \E fid \in FieldIds(project), f \in AllFields(project) :
                  open_origin_picker_ok(fid, "Triagem", f.name)

SpecIds == Init /\ [][NextIds]_vars

\* the places of the fields: task index and row index
Places(p) == UNION {{<<i, k>> : k \in DOMAIN p.tasks[i].fields} : i \in DOMAIN p.tasks}

KeepingOps ==
    {"_add_field", "_duplicate_field", "paste_as_copy", "paste_with_origin",
     "open_bpmn_importer", "_move_field", "_on_change_type", "set_origin"}

\* C19: no two fields of the project have the same id, and a handler that removes
\* and restores nothing leaves every field its id and its task, the ids of the
\* fields it makes being new
IdsUniqueAndKept ==
    /\ [](\A x, y \in Places(project) :
            x # y => project.tasks[x[1]].fields[x[2]].id # project.tasks[y[1]].fields[y[2]].id)
    /\ [][last'.op \in KeepingOps
            => /\ \A t \in Range(project.tasks) :
                     \E u \in Range(project'.tasks) :
                         /\ u.id = t.id
                         /\ {f.id : f \in Range(t.fields)} \subseteq {f.id : f \in Range(u.fields)}
               /\ (FieldIds(project') \ FieldIds(project)) \cap UsedIds = {}
               /\ Cardinality(Places(project'))
                     = Cardinality(Places(project))
                       + Cardinality(FieldIds(project') \ FieldIds(project))]_vars

\* two fields were made one after the other
TwoNewFields ==
    /\ last.op \in {"_duplicate_field", "_add_field"}
    /\ {"u1", "u2"} \subseteq FieldIds(project)

----------------------------------------------------------------------------
(* BPMN import: the files Triagem and Vinculo, two snapshots of history *)

NextImport ==
    \/ OpenFile({Triagem, Vinculo})
    \/ undo_action
    \/ redo_action
    \/ \E i \in DOMAIN project.tasks : _on_task_change(i)
    \/ \E fid \in FieldIds(project), text \in FieldNames : type_name(fid, text)
    \/ Room /\ ChangeType({"Informativo"})
    \/ RoomDeep /\ Import

SpecImport == Init /\ [][NextImport]_vars

\* the options of a decision as the claim gives them, for the decisions of the diagrams
Joined(opcoes) ==
    CASE Len(opcoes) = 0 -> ""
      [] Len(opcoes) = 1 -> opcoes[1]
      [] OTHER -> opcoes[1] \o "; " \o opcoes[2]

----------------------------------------------------------------------------
(* Rejected calls: the three files, with text typed in a name Entry *)

NextReject ==
    \/ OpenFile({Triagem, Vinculo, Contrato})
    \/ undo_action
    \/ redo_action
    \/ \E i \in DOMAIN project.tasks : _on_task_change(i)
    \/ \E fid \in FieldIds(project), text \in FieldNames : type_name(fid, text)
    \/ Room /\ ChangeType({"Objeto"})
    \/ Room /\ AddRule
    \/ Room /\ SetOrigin

SpecReject == Init /\ [][NextReject]_vars

\* the field the rule builder takes for the name sel: the first of the task so named
BaseField(fid, sel) ==
    LET cur == project.tasks[OwnerIndex(project.tasks, fid)]
    IN  cur.fields[FirstIndex(cur.fields, LAMBDA fld : fld.name = sel)]

\* C12: a type change to Objeto that is refused (the field has an origin, the task
\* has another Objeto field, or no object type name is given), an added rule equal
\* to one the field has, and an origin whose field is not found leave the project
\* as it was before the call
RejectedLeavesModel ==
    [][/\ \A fid \in FieldIds(project), dialog_name \in ObjectNames \cup {""} :
            LET f == FieldById(project, fid)
                t == project.tasks[OwnerIndex(project.tasks, fid)]
            IN  (/\ _on_change_type(fid, "Objeto", dialog_name)
                 /\ f.ftype # "Objeto"
                 /\ \/ f.origin_task # None
                    \/ f.origin_field # None
                    \/ \E x \in Range(t.fields) : x.ftype = "Objeto" /\ x.id # fid
                    \/ project.object_type = "" /\ dialog_name = "")
                => View(project', heap') = View(project, heap)
       /\ \A fid \in FieldIds(project), b \in AllFields(project), val \in RuleValues :
            (/\ name_entry = NoEdit
             /\ add_cond(fid, b.name, val)
             /\ \E c \in Range(FieldById(project, fid).cond) :
                   c = Condition(BaseField(fid, b.name).id, "==", val))
            => View(project', heap') = View(project, heap)
       /\ \A fid \in FieldIds(project), t \in Range(project.tasks), sel_f \in FieldNames :
            (/\ name_entry = NoEdit
             /\ open_origin_picker_ok(fid, t.name, sel_f)
             /\ \A fld \in Range(t.fields) : fld.name # sel_f)
            => View(project', heap') = View(project, heap)]_vars

----------------------------------------------------------------------------
(* Moving rows: the files Triagem and Vinculo, a field added, a type changed *)

NextMove ==
    \/ OpenFile({Triagem, Vinculo})
    \/ History
    \/ \E i \in DOMAIN project.tasks : _on_task_change(i)
    \/ Room /\ FewNew /\ _add_field
    \/ Room /\ ChangeType({"Informativo"})
    \/ RoomDeep /\ RowMenu

SpecMove == Init /\ [][NextMove]_vars

MoveOps == {"_move_field", "_move_field_to_top", "_move_field_to_end"}

Count(s, x) == Cardinality({i \in DOMAIN s : s[i] = x})

Permuted(s, t) ==
    /\ Len(s) = Len(t)
    /\ \A x \in Range(s) \cup Range(t) : Count(s, x) = Count(t, x)

----------------------------------------------------------------------------
(* The lookup caches *)

\* C22: after undo_action, redo_action and every mutating operation the caches hold,
\* for every field of the project and for no other id, the field's name and the id of
\* the task that owns it.
CachesDerived ==
    last.op \in MutatingOps \cup {"undo_action", "redo_action"}
    => /\ cache.field_name = _rebuild_metadata_cache(project).field_name
       /\ cache.field_task = _rebuild_metadata_cache(project).field_task

----------------------------------------------------------------------------
(* Reading a .bpm file: every file of up to MaxEntries entries *)

NextBpm ==
    \/ importer.screen = "welcome" /\ \E bpm \in Archives : run_import_flow(bpm)
    \/ \E it \in Range(importer.diagram_list) : diag_combobox_command(it[2])

SpecBpm == Init /\ [][NextBpm]_vars

\* the .diag entries of the file read whose Diagram.xml was parsed
Parseable(bpm) == {i \in DOMAIN bpm : IsDiag(bpm[i].name) /\ bpm[i].kind = "xml"}

\* C23: reading a file fails (an error or the warning that no diagram was found, and
\* the window closes) exactly when none of its .diag entries is a nested archive whose
\* Diagram.xml parses; with one such entry or more the list of diagrams is not empty.
ReadFailsIffNoneUsable ==
    importer.screen # "welcome"
    => /\ importer.screen \in {"error", "warning"} <=> Parseable(importer.bpm) = {}
       /\ Parseable(importer.bpm) # {} => importer.diagram_list # <<>>

\* the file bpm without its entry i
Without(bpm, i) == RemoveAt(bpm, i)

\* C24: when the file read has an entry c that cannot be read and an entry that can,
\* the read does not fail, c is listed under its own entry name, and every other
\* entry has the label, the nodes and the transitions that reading the file without c
\* gives.
CorruptEntryIsolated ==
    \A c \in DOMAIN importer.bpm :
        (/\ IsDiag(importer.bpm[c].name)
         /\ importer.bpm[c].kind = "raises"
         /\ Parseable(importer.bpm) # {})
        => LET d == importer.bpm[c].name
               alone == parse_bizagi_group_by_diagram(Without(importer.bpm, c))
           IN  /\ importer.screen = "importer"
               /\ <<d, d>> \in Range(importer.diagram_list)
               /\ Range(importer.diagram_list) \ {<<d, d>>} = Range(alone.diagrams_labels)
               /\ SelectSeq(importer.diagram_list, LAMBDA it : it # <<d, d>>)
                     = alone.diagrams_labels
               /\ \A it \in Range(alone.diagrams_labels) :
                     DictGet(importer.diagrams_data, it[1], NoRoot)
                        = [nodes |-> DictGet(alone.nodes_by_diag, it[1], <<>>),
                           transitions |-> DictGet(alone.transitions_by_diag, it[1], <<>>)]

\* a file with an entry that cannot be read and a diagram was read
CorruptEntryRead ==
    /\ importer.screen = "importer"
    /\ Len(importer.diagram_list) = 2
    /\ \E c \in DOMAIN importer.bpm : importer.bpm[c].kind = "raises"
    /\ \E i \in DOMAIN importer.bpm :
          importer.bpm[i].kind = "xml" /\ importer.bpm[i].root.activities # <<>>

\* C25: the diagrams listed are in ascending order of label, and two diagrams of the
\* same label are in ascending order of entry name, whatever the order of the entries
\* in the file.
SortedByLabelThenName ==
    \A i, j \in DOMAIN importer.diagram_list :
        i < j => LET a == importer.diagram_list[i]
                     b == importer.diagram_list[j]
                 IN  \/ StrLess(a[2], b[2])
                     \/ a[2] = b[2] /\ StrLess(a[1], b[1])

\* the label the diagram of entry e has in the list
LabelOf(e) == importer.diagram_list[FirstIndex(importer.diagram_list, LAMBDA it : it[1] = e.name)][2]

\* the normalized names of the pools of entry e
PoolNames(e) == MapSeq(e.root.pools, LAMBDA p : normalize_label(p.Name))

\* C30: the label of a diagram is the first of its normalized pool names that is not
\* "processo principal" in any case, when there is one; otherwise its first pool
\* name; and the entry name when the diagram has no pools.
LabelFromPools ==
    \A i \in Parseable(importer.bpm) :
        LET e == importer.bpm[i]
            names == PoolNames(e)
            other == SelectSeq(names, LAMBDA p : lower(p) # "processo principal")
        IN  importer.screen = "importer"
            => LabelOf(e) = IF names = <<>> THEN e.name
                            ELSE IF other # <<>> THEN other[1]
                            ELSE names[1]

\* C30, amended: pool names that are empty are passed over, and a diagram whose
\* first pool name is empty and has no other pool name than "processo principal"
\* takes the entry name.
LabelFromNamedPools ==
    \A i \in Parseable(importer.bpm) :
        LET e == importer.bpm[i]
            names == PoolNames(e)
            other == SelectSeq(names, LAMBDA p : p # "" /\ lower(p) # "processo principal")
        IN  importer.screen = "importer"
            => LabelOf(e) = IF names = <<>> THEN e.name
                            ELSE IF other # <<>> THEN other[1]
                            ELSE IF names[1] # "" THEN names[1]
                            ELSE e.name

\* a diagram whose second pool gave the label, the name normalized
LabelTaken ==
    /\ importer.screen = "importer"
    /\ \E it \in Range(importer.diagram_list) : it[2] = "Compras Diretas"

----------------------------------------------------------------------------
(* The decisions of a diagram: every file of Diagramas *)

NextDiagram ==
    \/ importer.screen = "welcome" /\ \E bpm \in Diagramas : run_import_flow(bpm)
    \/ \E it \in Range(importer.diagram_list) : diag_combobox_command(it[2])

SpecDiagram == Init /\ [][NextDiagram]_vars

\* the nodes and the transitions of the diagram shown in the window
ShownNodes == DictValues(DictGet(importer.diagrams_data, importer.current_diagram_id,
                                 [nodes |-> <<>>, transitions |-> <<>>]).nodes)

ShownTransitions == DictGet(importer.diagrams_data, importer.current_diagram_id,
                            [nodes |-> <<>>, transitions |-> <<>>]).transitions

NodeOf(id) == IF \E n \in Range(ShownNodes) : n.id = id
              THEN CHOOSE n \in Range(ShownNodes) : n.id = id ELSE NoNode

IsTask(n) == n.type = "Task" /\ n.has_implementation

\* the names of the ways out of gateway g, in the order of the transitions
OutNames(g) == MapSeq(SelectSeq(ShownTransitions, LAMBDA t : t.from = g.id), LAMBDA t : t.name)

\* the names of the nodes the ways out of gateway g lead to
OutDestinations(g) ==
    MapSeq(SelectSeq(ShownTransitions, LAMBDA t : t.from = g.id), LAMBDA t : NodeOf(t.to).name)

NonEmpty(names) == SelectSeq(names, LAMBDA o : o # "")

\* the candidates of the window that came from gateway g
CandidatesOf(g) ==
    {c \in UNION {Range(it.value) : it \in Range(importer.current_fields_by_task)} :
        \E t \in Range(ShownNodes) : c.id = t.id \o "_" \o g.id}

\* C27: the options of every candidate of a gateway are the names of its ways out that
\* are not empty, in the order of the transitions; when all are empty, the names that
\* are not empty of the nodes they lead to; when these are empty too and there are
\* exactly two ways out, Sim and Não; otherwise nothing.
OptionsDerived ==
    \A g \in Range(ShownNodes) :
        g.type = "Route"
        => \A c \in CandidatesOf(g) :
              c.opcoes = IF NonEmpty(OutNames(g)) # <<>> THEN NonEmpty(OutNames(g))
                         ELSE IF NonEmpty(OutDestinations(g)) # <<>>
                             THEN NonEmpty(OutDestinations(g))
                         ELSE IF Len(OutNames(g)) = 2 THEN <<"Sim", "Não">>
                         ELSE <<>>

\* a decision with two ways out without name, to nodes without name, was read
YesNoByDefault ==
    /\ importer.screen = "importer"
    /\ \E it \in Range(importer.current_fields_by_task) :
          \E c \in Range(it.value) : c.id = "T_G" /\ c.opcoes = <<"Sim", "Não">>
    /\ \A t \in Range(ShownTransitions) : t.name \in {"", "ir"}

\* text s with the tilde of its letters taken off
RECURSIVE Unaccented(_)
Unaccented(s) ==
    IF s = "" THEN ""
    ELSE (IF CharAt(s, 1) = "ã" THEN "a" ELSE IF CharAt(s, 1) = "Ã" THEN "A" ELSE CharAt(s, 1))
         \o Unaccented(SubSeq(s, 2, Len(s)))

AllCandidates == UNION {Range(it.value) : it \in Range(importer.current_fields_by_task)}

\* C28: a candidate is a yes/no list exactly when the set of its options, letter case
\* and accents put aside, is sim and não; in every other case it is a plain list.
KindIsYesNoIffSimNao ==
    \A c \in AllCandidates :
        c.tipo = IF {Unaccented(lower(o)) : o \in Range(c.opcoes)} = {"sim", "nao"}
                 THEN "Lista (Sim/Não)" ELSE "Lista"

\* the Activity elements of the diagram shown in the window
ShownActivities ==
    UNION {Range(e.root.activities) :
              e \in {x \in Range(importer.bpm) : x.name = importer.current_diagram_id}}

\* how many transitions lead from node s to node g
Arrows(s, g) == Cardinality({i \in DOMAIN ShownTransitions :
                    ShownTransitions[i].from = s /\ ShownTransitions[i].to = g})

\* the list of candidates the window holds for task t
FieldsOfTask(t) == DictGet(importer.current_fields_by_task, t.id, <<>>)

\* C26: for every gateway and every transition into it that comes from an implemented
\* task, that task has one candidate, with the id <task>_<gateway>, the normalized
\* name of the gateway and its options and kind; a gateway after several such tasks
\* gives each of them one; a transition that comes from a gateway, from an activity
\* without implementation or from a node that is not in the diagram gives none; and
\* there is one list, empty or not, for every task listed, and for nothing else.
OneCandidatePerArrow ==
    importer.screen = "importer"
    => /\ \A g \in Range(ShownNodes), t \in Range(importer.current_tasks) :
             g.type = "Route"
             => /\ Count(MapSeq(FieldsOfTask(t), LAMBDA c : c.id), t.id \o "_" \o g.id)
                      = Arrows(t.id, g.id)
                /\ \A c \in Range(FieldsOfTask(t)) :
                      c.id = t.id \o "_" \o g.id
                      => /\ \E a \in ShownActivities :
                               a.Id = g.id /\ c.campo = normalize_label(a.Name)
                         /\ \A c2 \in CandidatesOf(g) :
                               c2.opcoes = c.opcoes /\ c2.tipo = c.tipo
       /\ \A c \in AllCandidates :
             \E g \in Range(ShownNodes), t \in Range(ShownNodes) :
                /\ g.type = "Route" /\ IsTask(t)
                /\ Arrows(t.id, g.id) > 0
                /\ c.id = t.id \o "_" \o g.id
       /\ Len(importer.current_fields_by_task) = Len(importer.current_tasks)
       /\ \A i \in DOMAIN importer.current_tasks :
             importer.current_fields_by_task[i].key = importer.current_tasks[i].id
       /\ \A i, j \in DOMAIN importer.current_tasks :
             importer.current_tasks[i].id = importer.current_tasks[j].id => i = j

\* the decision after the tasks T and B gave each of them a candidate
TwoUpstreamTasks ==
    /\ importer.screen = "importer"
    /\ \E c \in Range(DictGet(importer.current_fields_by_task, "T", <<>>)) : c.id = "T_G"
    /\ \E c \in Range(DictGet(importer.current_fields_by_task, "B", <<>>)) : c.id = "B_G"
    /\ DictGet(importer.current_fields_by_task, "F", <<"none">>) = <<>>

\* C29: an Activity with a Route child is a gateway, one with an Implementation child
\* and no Route child is a task, any other a generic activity, and has_implementation
\* says whether the Implementation child is there; the tasks offered for import are
\* exactly the task nodes that have an implementation, so neither a gateway, with or
\* without Implementation, nor an activity without Implementation is offered.
ActivitiesClassified ==
    importer.screen = "importer"
    => /\ \A a \in ShownActivities :
             \E n \in Range(ShownNodes) :
                /\ n.id = a.Id
                /\ n.type = IF a.Route THEN "Route"
                            ELSE IF a.Implementation THEN "Task" ELSE "Activity"
                /\ n.has_implementation = a.Implementation
       /\ Len(ShownNodes) = Cardinality(ShownActivities)
       /\ importer.current_tasks = SelectSeq(ShownNodes, IsTask)
       /\ \A t \in Range(importer.current_tasks) :
             \E a \in ShownActivities : a.Id = t.id /\ a.Implementation /\ ~a.Route

\* the gateway H, which carries an implementation, was read and is not offered
GatewayNotOffered ==
    /\ importer.screen = "importer"
    /\ \E n \in Range(ShownNodes) : n.id = "H" /\ n.type = "Route" /\ n.has_implementation
    /\ MapSeq(importer.current_tasks, LAMBDA t : t.id) = <<"T", "B", "F">>

----------------------------------------------------------------------------
(* Deriving twice *)

----------------------------------------------------------------------------
(* Saving and loading what was imported *)

\* the tasks in order and, per task, the fields in order with what a reader sees
Essence(p) ==
    MapSeq(p.tasks, LAMBDA t :
        [id |-> t.id, name |-> t.name,
         fields |-> MapSeq(t.fields, LAMBDA f :
            [id |-> f.id, name |-> f.name, ftype |-> f.ftype, options |-> f.options,
             cond |-> f.cond, origin_task |-> f.origin_task,
             origin_field |-> f.origin_field])])

\* C32: a project made by importing a candidate set into the empty model comes back
\* from from_dict(to_dict()) and from _apply_project_dict with the same tasks in the
\* same order and, per task, the same fields in the same order with equal names,
\* types, options, rules and origins.
ImportedRoundTrip ==
    [][(last'.op = "open_bpmn_importer" /\ project.tasks = <<>>)
       => LET d == to_dict(project')
              ds == MapSeq(d.object_schema, LAMBDA r : heap'[r])
              snap == [project |-> d, current_task_id |-> current_task_id',
                       selected_field_ids |-> selected_field_ids']
          IN  /\ Essence(from_dict(d, ds, heap').project) = Essence(project')
              /\ Essence(_apply_project_dict(snap, current_task_id', heap').project)
                    = Essence(project')
              /\ Essence(_apply_project_dict(d, None, heap').project) = Essence(project')]_vars

\* two tasks with their decisions were imported into the empty model
ImportedIntoEmpty ==
    /\ last.op = "open_bpmn_importer"
    /\ TaskIds(project) = last.arg
    /\ Len(project.tasks) = 2
    /\ \A t \in Range(project.tasks) : Len(t.fields) = 1 /\ t.fields[1].options # ""

----------------------------------------------------------------------------
(* The consistency scan: the files Triagem, Vinculo and Orfao; a paste after a *)
(* deletion is two snapshots                                                *)

NextScan ==
    \/ OpenFile({Triagem, Vinculo, Orfao})
    \/ History
    \/ CopyRow
    \/ open_flow_validator
    \/ \E i \in DOMAIN project.tasks : _on_task_change(i)
    \/ Room /\ new_flow_blank
    \/ Room /\ \E fid \in FieldIds(project) : validator_clear_origin(fid)
    \/ Room /\ \E fid \in FieldIds(project) : _delete_field(fid)
    \/ RoomDeep /\ FewNew /\ _paste_fields("copy")

SpecScan == Init /\ [][NextScan]_vars

Reported(t, f, code) == [task |-> t.id, field |-> f.id, code |-> code] \in last.arg

\* C34: the scan reports BAD_ORIGIN for a field exactly when its origin_field is set
\* and names no field of the project, and BAD_RULE exactly when one of its rules has a
\* src_field that names no field of the project; loading a file keeps every origin
\* and every rule of the file as written, and the scan of the project loaded reports
\* those that name no field.
DanglingReported ==
    /\ [](last.op = "open_flow_validator"
            => \A t \in Range(project.tasks) : \A f \in Range(t.fields) :
                  /\ Reported(t, f, "BAD_ORIGIN")
                        <=> (f.origin_field # None /\ f.origin_field \notin FieldIds(project))
                  /\ Reported(t, f, "BAD_RULE")
                        <=> \E c \in Range(f.cond) : c.src_field \notin FieldIds(project))
    /\ [][\A data \in {Triagem, Vinculo, Orfao} :
            open_project(data)
            => \A i \in DOMAIN data.tasks : \A j \in DOMAIN data.tasks[i].fields :
                  LET fd == data.tasks[i].fields[j]
                      f == project'.tasks[i].fields[j]
                      ids == {x.id : x \in UNION {Range(td.fields) : td \in Range(data.tasks)}}
                  IN  /\ f.id = fd.id
                      /\ f.origin_field = fd.origin_field
                      /\ MapSeq(f.cond, LAMBDA c : c.src_field)
                            = MapSeq(fd.cond, LAMBDA c : c.src_field)
                      /\ (fd.origin_field # None /\ fd.origin_field \notin ids)
                            => \E w \in Range(_run_validation(project')) :
                                  w.field = fd.id /\ w.code = "BAD_ORIGIN"]_vars

\* the scan of the file Orfao, just loaded, has reported the origin of c
OrphanReported ==
    /\ last.op = "open_flow_validator"
    /\ _undo_stack = <<>>
    /\ \E w \in last.arg : w.field = "c" /\ w.code = "BAD_ORIGIN"

\* the scan has reported the rule of a pasted copy whose source field was deleted
PastedRuleReported ==
    /\ last.op = "open_flow_validator"
    /\ \E w \in last.arg : w.code = "BAD_RULE"

----------------------------------------------------------------------------
(* Names along origin links: the files Triagem and Vinculo, a field added,  *)
(* linked to a linked field, and the first origin renamed: three snapshots  *)

MaxRename == 3

RoomRename == Len(_undo_stack) < MaxRename

NextRename ==
    \/ OpenFile({Triagem, Vinculo})
    \/ History
    \/ \E fid \in FieldIds(project), text \in FieldNames : type_name(fid, text)
    \/ RoomRename /\ \E fid \in FieldIds(project) : _on_field_name_changed(fid)
    \/ Room /\ FewNew /\ _add_field
    \/ RoomDeep /\ name_entry = NoEdit /\ SetOrigin
    \/ Room /\ name_entry = NoEdit /\ ChangeType({"Objeto"})
    \/ Room /\ \E name \in ObjectNames : open_flow_object_type_dialog(name)

SpecRename == Init /\ [][NextRename]_vars

\* C35: every field whose name is locked for the reason "origem" has the name of the
\* field its origin_field names, also along a chain of origins.
LinkedNamesFollow ==
    \A f \in AllFields(project) :
        (f.name_lock_reason = "origem" /\ f.origin_field \in FieldIds(project))
            => f.name = FieldById(project, f.origin_field).name

----------------------------------------------------------------------------
(* History after a refused call *)

\* C36: a type change to Objeto that is refused, and an object-schema entry saved
\* with an empty name, leave the undo stack and the redo stack exactly as they were
\* before the call.  (Duplicate, move to top and move to end are offered by the rows
\* of the active task only.)
RejectedLeavesHistory ==
    [][/\ \A fid \in FieldIds(project), dialog_name \in ObjectNames \cup {""} :
            LET f == FieldById(project, fid)
                t == project.tasks[OwnerIndex(project.tasks, fid)]
            IN  (/\ name_entry = NoEdit
                 /\ _on_change_type(fid, "Objeto", dialog_name)
                 /\ f.ftype # "Objeto"
                 /\ \/ f.origin_task # None
                    \/ f.origin_field # None
                    \/ \E x \in Range(t.fields) : x.ftype = "Objeto" /\ x.id # fid
                    \/ project.object_type = "" /\ dialog_name = "")
                => _undo_stack' = _undo_stack /\ _redo_stack' = _redo_stack
       /\ \A dialog_name \in ObjectNames \cup {""}, i \in 1..MaxObj :
            (schema_add(dialog_name, "") \/ schema_edit(dialog_name, i, ""))
                => _undo_stack' = _undo_stack /\ _redo_stack' = _redo_stack]_vars

----------------------------------------------------------------------------
(* The origin relation *)

\* the ids met when following origin_field from the field fid, n links at most
RECURSIVE Upstream(_, _, _)
Upstream(p, fid, n) ==
    IF n = 0 \/ fid \notin FieldIds(p) THEN {}
    ELSE LET o == FieldById(p, fid).origin_field
         IN  IF o = None THEN {} ELSE {o} \cup Upstream(p, o, n - 1)

\* C37: no field is its own origin, and following origin_field from a field never
\* comes back to that field.
OriginAcyclic ==
    \A f \in AllFields(project) :
        /\ f.origin_field # f.id
        /\ f.id \notin Upstream(project, f.id, Cardinality(FieldIds(project)))

----------------------------------------------------------------------------
(* Deleting the selection *)

\* C38: after delete_selected_fields no field whose id was selected is in any task,
\* and rules and origins are taken away only where they named a field that was
\* removed.
SelectedFieldsRemoved ==
    [][last'.op = "delete_selected_fields"
        => /\ selected_field_ids \cap FieldIds(project') = {}
           /\ \A g \in AllFields(project) :
                 g.id \in FieldIds(project')
                 => LET g1 == FieldById(project', g.id)
                        gone == FieldIds(project) \ FieldIds(project')
                    IN  /\ (g1.origin_field # g.origin_field) => g.origin_field \in gone
                        /\ \A c \in Range(g.cond) :
                              c \notin Range(g1.cond) => c.src_field \in gone]_vars

----------------------------------------------------------------------------
(* The active task: tasks added, deleted and moved, diagrams imported, a new *)
(* flow, templates, files, undo and redo                                     *)

NextActive ==
    \/ OpenFile({Triagem, Vinculo, Esquema})
    \/ History
    \/ \E i \in DOMAIN project.tasks : _on_task_change(i)
    \/ \E data \in {Vinculo, Esquema} : apply_sel([project |-> data])
    \/ Room /\ TasksDialog
    \/ Room /\ new_flow_blank
    \/ Room /\ FewNew /\ Import

SpecActive == Init /\ [][NextActive]_vars

ActiveOps ==
    {"add_task", "delete_task", "move_task", "open_bpmn_importer",
     "new_flow_blank", "apply_sel", "open_project", "undo_action", "redo_action"}

\* C39: after a task is added, deleted or moved, after a BPMN merge, a new blank
\* flow, a template applied, a file loaded, undo and redo, current_task_id is the id
\* of a task of the project when the project has a task, and None when it has none.
ActiveTaskValid ==
    last.op \in ActiveOps
        => IF project.tasks # <<>> THEN current_task_id \in TaskIds(project)
           ELSE current_task_id = None

\* the active task was deleted and another task is active
ActiveTaskDeleted ==
    /\ last.op = "delete_task"
    /\ Len(project.tasks) = 1
    /\ current_task_id = "t2"
    /\ current_task_id = project.tasks[1].id

----------------------------------------------------------------------------
(* Merging into a project that has an object type: the files Contrato and   *)
(* Esquema, the flow and the object type renamed                            *)

NextMerge ==
    \/ OpenFile({Contrato, Esquema})
    \/ History
    \/ \E i \in DOMAIN project.tasks : _on_task_change(i)
    \/ Room /\ \E new \in FlowNames : rename_flow(new)
    \/ Room /\ \E name \in ObjectNames : open_flow_object_type_dialog(name)
    \/ RoomDeep /\ FewNew /\ Import

SpecMerge == Init /\ [][NextMerge]_vars

\* C40 as stated: the BPMN merge leaves flow_name, object_type and object_schema of
\* the project as they were, whatever the candidate set and the diagram label.
MergeKeepsAttributes ==
    [][last'.op = "open_bpmn_importer"
        => /\ project'.flow_name = project.flow_name
           /\ project'.object_type = project.object_type
           /\ View(project', heap').object_schema = View(project, heap).object_schema]_vars

\* C40, as the code has it: the BPMN merge leaves object_type and object_schema as
\* they were; flow_name becomes the diagram label when the label is not empty and is
\* left as it was when the label is empty.
MergeKeepsObject ==
    [][\A label \in {"", "Diagrama"} :
          \A imported_data \in {Simples(label), Decisoes(label)} :
              open_bpmn_importer(imported_data)
              => /\ project'.object_type = project.object_type
                 /\ project'.object_schema = project.object_schema
                 /\ View(project', heap').object_schema = View(project, heap).object_schema
                 /\ project'.flow_name = IF label = "" THEN project.flow_name ELSE label]_vars

\* a diagram without a label was merged into the project Esquema, which keeps its
\* name, its object type and the two entries of its schema
MergedIntoEsquema ==
    /\ last.op = "open_bpmn_importer"
    /\ project.flow_name = "Esquema"
    /\ project.object_type = "Obj"
    /\ Len(project.object_schema) = 2
    /\ project.tasks # <<>>

====
